---- MODULE Spec2Model ----
(***************************************************************************)
(* State-machine model of the Hexagon NN HAL graph builder:                *)
(*   hexagon::Model   (HexagonModel.cpp,          src/unnamed/part_000)    *)
(*   utilities        (HexagonUtils.cpp,          src/unnamed/part_001)    *)
(*   Controller       (HexagonController.cpp,     src/unnamed/part_002)    *)
(*   check / prepare  (HexagonOperations*.cpp,    src/1.0/...)             *)
(*   PreparedModel    (src/PreparedModel.cpp), Device (src/Device.cpp)     *)
(*                                                                         *)
(* One hexagon::Model object is modelled together with the accelerator     *)
(* runtime it talks to.  The runtime is external: each of its entry points *)
(* answers with a status that is chosen nondeterministically.              *)
(*                                                                         *)
(* HEXAGON_SOFT_ASSERT*(cond, msg) logs and executes `return {}` when the  *)
(* condition fails: a bool function returns false, a function returning    *)
(* hexagon_nn_input returns the default (0,0) handle, a function returning *)
(* a vector returns an empty vector.  Every use below is translated so.    *)
(***************************************************************************)
EXTENDS Integers, Sequences, FiniteSets, TLC

\* ------------------------------------------------------------------ bounds
\* number of Model::compile() calls on the one Model object
MaxCompiles == 2
\* the runtime may reject the call with ordinal 1..MaxCalls of one compile()
MaxCalls == 15
\* number of PreparedModel::execute() calls on one prepared model
MaxRequests == 2
\* constant nodes created by the functions applied one by one to one Model
MaxConstants == 2
\* longest dimension vector handed to getAlignedDimensions
MaxRank == 5
\* largest declared padding on one side handed to getPadding
MaxPadding == 2

\* ------------------------------------------------------- program constants
\* Model::resetModel / Controller::set_debug_level(mGraphId, 99)
DebugLevel == 99

\* hexagon_nn_input{} : the "unset" tensor reference
NoInput == <<0, 0>>
\* hexagon_nn_nn_id{} : the "not initialised" session
NoGraph == 0

\* hexagon_nn_output{} : value-initialised output descriptor
NoOutput == [rank |-> 0, max_sizes |-> <<0, 0, 0, 0, 0, 0, 0, 0>>, elementsize |-> 0]

\* FusedActivationFunc values (NONE, RELU, RELU1, RELU6)
ActNONE == 0
ActRELU == 1
ActRELU1 == 2
ActRELU6 == 3

\* ------------------------------------------------------------ small helpers
RECURSIVE SeqToSet(_)
SeqToSet(s) == IF s = <<>> THEN {} ELSE {Head(s)} \cup SeqToSet(Tail(s))

RECURSIVE Ones(_)
Ones(n) == IF n <= 0 THEN <<>> ELSE <<1>> \o Ones(n - 1)

Min(a, b) == IF a < b THEN a ELSE b

Max(a, b) == IF a > b THEN a ELSE b

\* --------------------------------------------------- the models handed in
\* An operand of the NeuralnetworksModel: `value` stands for the content of
\* its buffer (the scalar it holds; 0 for tensor data, which is opaque here).
Opnd(type, dims, life, value) ==
  [type |-> type, dimensions |-> dims, scale |-> 0, zeroPoint |-> 0,
   lifetime |-> life, value |-> value]

QOpnd(dims, life, scale, zeroPoint) ==
  [type |-> "TENSOR_QUANT8_ASYMM", dimensions |-> dims, scale |-> scale,
   zeroPoint |-> zeroPoint, lifetime |-> life, value |-> 0]

Scalar(value) == Opnd("INT32", <<>>, "CONSTANT_COPY", value)

RECURSIVE Product(_)
Product(dims) == IF dims = <<>> THEN 1 ELSE Head(dims) * Product(Tail(dims))

Oper(type, ins, outs) == [type |-> type, inputs |-> ins, outputs |-> outs]

\* one float32 ADD of two [1,2,2,1] tensors, no activation
MAddF ==
  [operands |-> << Opnd("TENSOR_FLOAT32", <<1, 2, 2, 1>>, "MODEL_INPUT", 0),
                   Opnd("TENSOR_FLOAT32", <<1, 2, 2, 1>>, "MODEL_INPUT", 0),
                   Scalar(ActNONE),
                   Opnd("TENSOR_FLOAT32", <<1, 2, 2, 1>>, "MODEL_OUTPUT", 0) >>,
   operations |-> << Oper("ADD", <<1, 2, 3>>, <<4>>) >>,
   inputIndexes |-> <<1, 2>>, outputIndexes |-> <<4>>]

\* float32 CONV_2D, explicit SAME padding, 3x3 constant filter, constant
\* bias, stride 1, fused RELU (10 inputs)
MConvF ==
  [operands |-> << Opnd("TENSOR_FLOAT32", <<1, 5, 5, 1>>, "MODEL_INPUT", 0),
                   Opnd("TENSOR_FLOAT32", <<1, 3, 3, 1>>, "CONSTANT_COPY", 0),
                   Opnd("TENSOR_FLOAT32", <<1>>, "CONSTANT_COPY", 0),
                   Scalar(1), Scalar(1), Scalar(1), Scalar(1),
                   Scalar(1), Scalar(1), Scalar(ActRELU),
                   Opnd("TENSOR_FLOAT32", <<1, 5, 5, 1>>, "MODEL_OUTPUT", 0) >>,
   operations |-> << Oper("CONV_2D", <<1, 2, 3, 4, 5, 6, 7, 8, 9, 10>>, <<11>>) >>,
   inputIndexes |-> <<1>>, outputIndexes |-> <<11>>]

\* float32 CONV_2D with the implicit padding scheme (7 inputs):
\* padding SAME (1), stride 1, no activation
MConv7F ==
  [operands |-> << Opnd("TENSOR_FLOAT32", <<1, 5, 5, 1>>, "MODEL_INPUT", 0),
                   Opnd("TENSOR_FLOAT32", <<1, 3, 3, 1>>, "CONSTANT_COPY", 0),
                   Opnd("TENSOR_FLOAT32", <<1>>, "CONSTANT_COPY", 0),
                   Scalar(1), Scalar(1), Scalar(1), Scalar(ActNONE),
                   Opnd("TENSOR_FLOAT32", <<1, 5, 5, 1>>, "MODEL_OUTPUT", 0) >>,
   operations |-> << Oper("CONV_2D", <<1, 2, 3, 4, 5, 6, 7>>, <<8>>) >>,
   inputIndexes |-> <<1>>, outputIndexes |-> <<8>>]

\* L2_POOL_2D on a quantized tensor: 2x2 window, stride 2, no padding
ML2Q ==
  [operands |-> << QOpnd(<<1, 4, 4, 1>>, "MODEL_INPUT", 2, 3),
                   Scalar(0), Scalar(0), Scalar(0), Scalar(0),
                   Scalar(2), Scalar(2), Scalar(2), Scalar(2), Scalar(ActNONE),
                   QOpnd(<<1, 2, 2, 1>>, "MODEL_OUTPUT", 2, 3) >>,
   operations |-> << Oper("L2_POOL_2D", <<1, 2, 3, 4, 5, 6, 7, 8, 9, 10>>, <<11>>) >>,
   inputIndexes |-> <<1>>, outputIndexes |-> <<11>>]

\* one quantized ADD of two [1,2,2,1] tensors, no activation
MAddQ ==
  [operands |-> << QOpnd(<<1, 2, 2, 1>>, "MODEL_INPUT", 2, 3),
                   QOpnd(<<1, 2, 2, 1>>, "MODEL_INPUT", 1, 0),
                   Scalar(ActNONE),
                   QOpnd(<<1, 2, 2, 1>>, "MODEL_OUTPUT", 4, 5) >>,
   operations |-> << Oper("ADD", <<1, 2, 3>>, <<4>>) >>,
   inputIndexes |-> <<1, 2>>, outputIndexes |-> <<4>>]

\* float32 RELU whose tensors have an unknown (zero) dimension
MZero ==
  [operands |-> << Opnd("TENSOR_FLOAT32", <<1, 0>>, "MODEL_INPUT", 0),
                   Opnd("TENSOR_FLOAT32", <<1, 0>>, "MODEL_OUTPUT", 0) >>,
   operations |-> << Oper("RELU", <<1>>, <<2>>) >>,
   inputIndexes |-> <<1>>, outputIndexes |-> <<2>>]

\* float32 RELU plus a declared model output that no operation produces
MNoOut ==
  [operands |-> << Opnd("TENSOR_FLOAT32", <<1, 2>>, "MODEL_INPUT", 0),
                   Opnd("TENSOR_FLOAT32", <<1, 2>>, "MODEL_OUTPUT", 0),
                   Opnd("TENSOR_FLOAT32", <<1, 2>>, "MODEL_OUTPUT", 0) >>,
   operations |-> << Oper("RELU", <<1>>, <<2>>) >>,
   inputIndexes |-> <<1>>, outputIndexes |-> <<2, 3>>]

\* RELU feeding an ADD with a constant, through a temporary whose declared
\* dimensions differ from the ones shape inference gives it
MChain ==
  [operands |-> << Opnd("TENSOR_FLOAT32", <<2, 3>>, "MODEL_INPUT", 0),
                   Opnd("TENSOR_FLOAT32", <<1, 1>>, "TEMPORARY_VARIABLE", 0),
                   Opnd("TENSOR_FLOAT32", <<3>>, "CONSTANT_REFERENCE", 0),
                   Scalar(ActRELU6),
                   Opnd("TENSOR_FLOAT32", <<1, 1>>, "MODEL_OUTPUT", 0) >>,
   operations |-> << Oper("RELU", <<1>>, <<2>>),
                     Oper("ADD", <<2, 3, 4>>, <<5>>) >>,
   inputIndexes |-> <<1>>, outputIndexes |-> <<5>>]

\* float32 MAX_POOL_2D, explicit VALID padding, 2x2 window, stride 2, fused
\* RELU1 (10 inputs)
MPoolF ==
  [operands |-> << Opnd("TENSOR_FLOAT32", <<1, 4, 4, 1>>, "MODEL_INPUT", 0),
                   Scalar(0), Scalar(0), Scalar(0), Scalar(0),
                   Scalar(2), Scalar(2), Scalar(2), Scalar(2), Scalar(ActRELU1),
                   Opnd("TENSOR_FLOAT32", <<1, 2, 2, 1>>, "MODEL_OUTPUT", 0) >>,
   operations |-> << Oper("MAX_POOL_2D", <<1, 2, 3, 4, 5, 6, 7, 8, 9, 10>>, <<11>>) >>,
   inputIndexes |-> <<1>>, outputIndexes |-> <<11>>]

\* quantized CONV_2D, explicit padding 1 on every side (SAME for its 3x3
\* constant filter), constant int32 bias, stride 1, fused RELU (10 inputs)
MConv3Q ==
  [operands |-> << QOpnd(<<1, 5, 5, 1>>, "MODEL_INPUT", 2, 3),
                   QOpnd(<<1, 3, 3, 1>>, "CONSTANT_COPY", 1, 0),
                   Opnd("TENSOR_INT32", <<1>>, "CONSTANT_COPY", 0),
                   Scalar(1), Scalar(1), Scalar(1), Scalar(1),
                   Scalar(1), Scalar(1), Scalar(ActRELU),
                   QOpnd(<<1, 5, 5, 1>>, "MODEL_OUTPUT", 4, 5) >>,
   operations |-> << Oper("CONV_2D", <<1, 2, 3, 4, 5, 6, 7, 8, 9, 10>>, <<11>>) >>,
   inputIndexes |-> <<1>>, outputIndexes |-> <<11>>]

\* float32 ADD that lacks its activation operand (two inputs): its check fails
MAdd2F ==
  [operands |-> << Opnd("TENSOR_FLOAT32", <<1, 2, 2, 1>>, "MODEL_INPUT", 0),
                   Opnd("TENSOR_FLOAT32", <<1, 2, 2, 1>>, "MODEL_INPUT", 0),
                   Opnd("TENSOR_FLOAT32", <<1, 2, 2, 1>>, "MODEL_OUTPUT", 0) >>,
   operations |-> << Oper("ADD", <<1, 2>>, <<3>>) >>,
   inputIndexes |-> <<1, 2>>, outputIndexes |-> <<3>>]

\* the catalogue; every model lists its operations in execution order, as
\* the HAL requires of a Model
Models == <<MAddF, MConvF, MConv7F, ML2Q, MAddQ, MZero, MNoOut, MChain, MPoolF, MConv3Q,
           MAdd2F>>

\* float32 CONV_2D whose filter is a model input, not a constant
MConvTF ==
  [operands |-> << Opnd("TENSOR_FLOAT32", <<1, 5, 5, 1>>, "MODEL_INPUT", 0),
                   Opnd("TENSOR_FLOAT32", <<1, 3, 3, 1>>, "MODEL_INPUT", 0),
                   Opnd("TENSOR_FLOAT32", <<1>>, "CONSTANT_COPY", 0),
                   Scalar(1), Scalar(1), Scalar(1), Scalar(1),
                   Scalar(1), Scalar(1), Scalar(ActNONE),
                   Opnd("TENSOR_FLOAT32", <<1, 5, 5, 1>>, "MODEL_OUTPUT", 0) >>,
   operations |-> << Oper("CONV_2D", <<1, 2, 3, 4, 5, 6, 7, 8, 9, 10>>, <<11>>) >>,
   inputIndexes |-> <<1, 2>>, outputIndexes |-> <<11>>]

\* quantized DEPTHWISE_CONV_2D, explicit padding 1 on every side, 3x3 constant
\* filter with its own scale and zero point, constant int32 bias, stride 1,
\* depth multiplier 1, no activation (11 inputs)
MDepthQ ==
  [operands |-> << QOpnd(<<1, 5, 5, 1>>, "MODEL_INPUT", 2, 3),
                   QOpnd(<<1, 3, 3, 1>>, "CONSTANT_COPY", 1, 7),
                   Opnd("TENSOR_INT32", <<1>>, "CONSTANT_COPY", 0),
                   Scalar(1), Scalar(1), Scalar(1), Scalar(1),
                   Scalar(1), Scalar(1), Scalar(1), Scalar(ActNONE),
                   QOpnd(<<1, 5, 5, 1>>, "MODEL_OUTPUT", 4, 5) >>,
   operations |-> << Oper("DEPTHWISE_CONV_2D", <<1, 2, 3, 4, 5, 6, 7, 8, 9, 10, 11>>,
                          <<12>>) >>,
   inputIndexes |-> <<1>>, outputIndexes |-> <<12>>]

\* the same DEPTHWISE_CONV_2D with its filter a model input
MDepthTQ ==
  [MDepthQ EXCEPT !.operands[2] = QOpnd(<<1, 3, 3, 1>>, "MODEL_INPUT", 1, 7),
                  !.inputIndexes = <<1, 2>>]

\* the float32 ADD of MAddF beside a third model input of rank 5 that no
\* operation reads
MRank5 ==
  [operands |-> MAddF.operands
                  \o << Opnd("TENSOR_FLOAT32", <<1, 1, 2, 2, 1>>, "MODEL_INPUT", 0) >>,
   operations |-> MAddF.operations,
   inputIndexes |-> <<1, 2, 5>>, outputIndexes |-> <<4>>]

\* float32 FULLY_CONNECTED of a [1,3] input with constant [2,3] weights (two
\* units of three inputs each) and a constant bias, no activation
MFullF ==
  [operands |-> << Opnd("TENSOR_FLOAT32", <<1, 3>>, "MODEL_INPUT", 0),
                   Opnd("TENSOR_FLOAT32", <<2, 3>>, "CONSTANT_COPY", 0),
                   Opnd("TENSOR_FLOAT32", <<2>>, "CONSTANT_COPY", 0),
                   Scalar(ActNONE),
                   Opnd("TENSOR_FLOAT32", <<1, 2>>, "MODEL_OUTPUT", 0) >>,
   operations |-> << Oper("FULLY_CONNECTED", <<1, 2, 3, 4>>, <<5>>) >>,
   inputIndexes |-> <<1>>, outputIndexes |-> <<5>>]

\* the quantized FULLY_CONNECTED of the same shapes
MFullQ ==
  [operands |-> << QOpnd(<<1, 3>>, "MODEL_INPUT", 2, 3),
                   QOpnd(<<2, 3>>, "CONSTANT_COPY", 1, 7),
                   Opnd("TENSOR_INT32", <<2>>, "CONSTANT_COPY", 0),
                   Scalar(ActNONE),
                   QOpnd(<<1, 2>>, "MODEL_OUTPUT", 4, 5) >>,
   operations |-> << Oper("FULLY_CONNECTED", <<1, 2, 3, 4>>, <<5>>) >>,
   inputIndexes |-> <<1>>, outputIndexes |-> <<5>>]

\* float32 ADD whose second input is a temporary that no operation produces
MTemp ==
  [MAddF EXCEPT !.operands[2] = Opnd("TENSOR_FLOAT32", <<1, 2, 2, 1>>,
                                     "TEMPORARY_VARIABLE", 0),
                !.inputIndexes = <<1>>]

\* the models whose lowering is looked at one construct at a time
LoweringModels == <<MConvTF, MDepthQ, MDepthTQ, MRank5, MFullF, MFullQ, MTemp>>

\* ------------------------------------------------ HexagonUtils (part_001)
\* getSize(OperandType): element size in bytes
getSize(type) ==
  CASE type = "FLOAT32" -> 4
    [] type = "INT32" -> 4
    [] type = "UINT32" -> 4
    [] type = "TENSOR_FLOAT32" -> 4
    [] type = "TENSOR_INT32" -> 4
    [] type = "TENSOR_QUANT8_ASYMM" -> 1
    [] OTHER -> 0

\* getAlignedDimensions padding with 1s on the right
getAlignedDimensions_trailing(dims, N) ==
  IF ~(N >= Len(dims)) THEN <<>> ELSE dims \o Ones(N - Len(dims))

\* getAlignedDimensions(dims, N): <<>> is the `return {}` of the failed assert
getAlignedDimensions(dims, N) ==
  IF ~(N >= Len(dims)) THEN <<>> ELSE Ones(N - Len(dims)) \o dims

\* make_hexagon_nn_output(dims, size)
make_hexagon_nn_output(dims, size) ==
  LET alignedDims == getAlignedDimensions(dims, 4)
  IN [rank |-> Min(8, Len(alignedDims)),
      max_sizes |-> [i \in 1..8 |-> IF i <= Len(alignedDims) THEN alignedDims[i] ELSE 0],
      elementsize |-> size]

\* getFloatActivationFunction(FusedActivationFunc)
getFloatActivationFunction(act) ==
  CASE act = ActRELU -> "OP_Relu_f"
    [] act = ActRELU1 -> "OP_ReluX_f"
    [] act = ActRELU6 -> "OP_Clamp_f"
    [] OTHER -> "OP_Nop"

\* getQuantizedActivationFunction(FusedActivationFunc)
getQuantizedActivationFunction(act) ==
  CASE act = ActRELU -> "OP_QuantizedRelu_8"
    [] act = ActRELU1 -> "OP_QuantizedReluX_8"
    [] act = ActRELU6 -> "OP_QuantizedClamp_8"
    [] OTHER -> "OP_Nop"

\* ------------------------------------------------- the threaded builder state
\* Every routine of hexagon::Model below takes the object's state S and gives
\* back the state it leaves, with its return value in field r where it has one:
\*   ops      mOperands (OperandInfo per operand)      nc   mNodeCount
\*   gid      mGraphId                                 compiled  mCompiled
\*   calls    the accelerator calls made by the running handler, in order
\*   na       how many append_node/append_const_node calls it has made
\*   rej      ordinal of the append call the runtime rejects (0: none)
\*   prepOk   whether the runtime's prepare succeeds
\*   nextId   the session id the runtime's next init() hands out
\*   log      the messages logged by failed HEXAGON_SOFT_ASSERTs
\*   writes   the assignments to operands' hexagon_input made by the running
\*            handler, each with the value it replaced
Ret(S, r) == [s |-> S, r |-> r]

\* sequencing: the rest K of a routine, run on what the statement before it
\* produced
Then(x, K(_)) == K(x)

\* a failed HEXAGON_SOFT_ASSERT: LOG(DEBUG) << message
Logged(S, msg) == [S EXCEPT !.log = Append(@, msg)]

\* operand.hexagon_input = handle
Assigned(S, operand, handle) ==
  [S EXCEPT !.ops[operand].hexagon_input = handle,
            !.writes = Append(@, [operand |-> operand, session |-> S.gid,
                                  old |-> S.ops[operand].hexagon_input,
                                  new |-> handle])]

Call(fn, id, node, op, pad, ins, outs, shape, data, ok) ==
  [fn |-> fn, id |-> id, node |-> node, op |-> op, pad |-> pad, ins |-> ins,
   outs |-> outs, shape |-> shape, data |-> data, ok |-> ok]

\* a call of an entry point that creates no node
PlainCall(fn, id, ok) == Call(fn, id, 0, "", "", <<>>, <<>>, <<>>, <<>>, ok)

\* Controller::set_debug_level(id, 99)
DebugCall(id) == Call("set_debug_level", id, 0, "", "", <<>>, <<>>, <<>>, <<DebugLevel>>, TRUE)

\* OperandInfo built by getOperandsInfo from the NeuralnetworksModel
getOperandsInfo(model) ==
  [i \in 1..Len(model.operands) |->
     [type |-> model.operands[i].type,
      dimensions |-> model.operands[i].dimensions,
      scale |-> model.operands[i].scale,
      zeroPoint |-> model.operands[i].zeroPoint,
      lifetime |-> model.operands[i].lifetime,
      value |-> model.operands[i].value,
      hexagon_input |-> NoInput,
      hexagon_input_min |-> NoInput,
      hexagon_input_max |-> NoInput,
      hexagon_output |-> NoOutput]]

\* ------------------------------------------- hexagon::Model (part_000)
\* Model::getNextNode: return ++mNodeCount (a uint32_t, which wraps only
\* after 2^32 ids; no build below comes near it)
getNextNode(S) ==
  LET n == S.nc + 1
  IN Ret([S EXCEPT !.nc = n], n)

\* Model::getShape
getShape(S, operand) ==
  [type |-> S.ops[operand].type, dimensions |-> S.ops[operand].dimensions,
   scale |-> S.ops[operand].scale, offset |-> S.ops[operand].zeroPoint]

\* setShape guarding on the operand's input handle instead of its output
\* descriptor
setShape_handle(S, operand, shape) ==
  IF S.ops[operand].hexagon_input # NoInput
  THEN Ret(Logged(S, "Output has already been set"), FALSE)
  ELSE Ret([S EXCEPT !.ops[operand].dimensions = shape.dimensions], TRUE)

\* Model::setShape: only the dimensions are taken over
setShape(S, operand, shape) ==
  IF S.ops[operand].hexagon_output # NoOutput
  THEN Ret(Logged(S, "Output has already been set"), FALSE)
  ELSE Ret([S EXCEPT !.ops[operand].dimensions = shape.dimensions], TRUE)

\* Model::isConstant
isConstant(S, operand) ==
  S.ops[operand].lifetime \in {"CONSTANT_COPY", "CONSTANT_REFERENCE"}

\* Model::getScalar<T>: the scalar stored in the operand's buffer
getScalar(S, operand) == S.ops[operand].value

\* Model::createTensorInternal: a node id is taken, then append_const_node
createTensorInternal(S, B, H, W, D, data) ==
  Then(getNextNode(S), LAMBDA nn :
  Then(nn.s.na + 1 # nn.s.rej, LAMBDA success :
  Then([nn.s EXCEPT
          !.na = @ + 1,
          !.calls = Append(@, Call("append_const_node", nn.s.gid, nn.r, "OP_Const",
                                   "", <<>>, <<>>, <<B, H, W, D>>, data, success))],
       LAMBDA S1 :
    IF ~success
    THEN Ret(Logged(S1, "Failed to create tensor"), NoInput)
    ELSE Ret(S1, <<nn.r, 0>>))))

\* Model::createShape: a one-word dummy tensor of the given shape
createShape(S, B, H, W, D) == createTensorInternal(S, B, H, W, D, <<"shape">>)

\* Model::createValues<T>(values): a [1,1,1,n] tensor holding the values
createValues(S, values) ==
  createTensorInternal(S, 1, 1, 1, Len(values), <<"values", values>>)

\* Model::createScalar<T>(value): a [1,1,1,1] tensor holding the value
createScalar(S, value) == createTensorInternal(S, 1, 1, 1, 1, <<"values", <<value>> >>)

\* Model::addOperand: the operand's buffer as a constant node
addOperand(S, operandIndex) ==
  Then(getAlignedDimensions(S.ops[operandIndex].dimensions, 4), LAMBDA dims :
    IF Len(dims) = 0
    THEN Ret(Logged(S, "Rank must be at most 4"), NoInput)
    ELSE Then(createTensorInternal(S, dims[1], dims[2], dims[3], dims[4],
                                   <<"operand", operandIndex>>), LAMBDA t :
           IF t.r = NoInput
           THEN Ret(Logged(t.s, "Failed to add operand"), NoInput)
           ELSE t))

\* Model::getTensor: the operand's handle, realised on demand by addOperand
getTensor(S, operand) ==
  IF S.ops[operand].hexagon_input = NoInput
  THEN Then(addOperand(S, operand), LAMBDA t : Ret(Assigned(t.s, operand, t.r), t.r))
  ELSE Ret(S, S.ops[operand].hexagon_input)

\* Model::getQuantizationMin: (0 - zeroPoint) * scale, cached per operand
getQuantizationMin(S, operand) ==
  IF S.ops[operand].hexagon_input_min = NoInput
  THEN Then(createValues(S, <<(0 - S.ops[operand].zeroPoint) * S.ops[operand].scale>>),
            LAMBDA t : Ret([t.s EXCEPT !.ops[operand].hexagon_input_min = t.r], t.r))
  ELSE Ret(S, S.ops[operand].hexagon_input_min)

\* Model::getQuantizationMax: (255 - zeroPoint) * scale, cached per operand
getQuantizationMax(S, operand) ==
  IF S.ops[operand].hexagon_input_max = NoInput
  THEN Then(createValues(S, <<(255 - S.ops[operand].zeroPoint) * S.ops[operand].scale>>),
            LAMBDA t : Ret([t.s EXCEPT !.ops[operand].hexagon_input_max = t.r], t.r))
  ELSE Ret(S, S.ops[operand].hexagon_input_max)

\* uint32_t values as two 16-bit limbs <<high, low>>
Limb == 65536

\* conversion of an int32_t or small uint32_t to uint32_t
ToU32(n) == <<(n \div Limb) % Limb, n % Limb>>

\* a - b in uint32_t (modulo 2^32)
SubU32(a, b) ==
  <<(a[1] - b[1] - (IF a[2] < b[2] THEN 1 ELSE 0)) % Limb, (a[2] - b[2]) % Limb>>

\* a + b in uint32_t (modulo 2^32)
AddU32(a, b) ==
  <<(a[1] + b[1] + ((a[2] + b[2]) \div Limb)) % Limb, (a[2] + b[2]) % Limb>>

\* nullptr
Null == <<>>

\* getDataFromBlock(block, offset, length): offset and length are uint32_t,
\* as is their sum; blockSize is block.size(), below 2^16 here
getDataFromBlock(blockSize, offset, length) ==
  IF ~(AddU32(offset, length)[1] = 0 /\ AddU32(offset, length)[2] <= blockSize)
  THEN Null
  ELSE <<"block", offset>>

\* getDataFromPool(pool, offset, length): the bounds assertion is commented out
getDataFromPool(pool, offset, length) == <<"pool", pool, offset>>

\* getData(operand, block, pools): the operand's buffer, Null for nullptr and
\* for the `return {}` of a failed assertion
getData(operand, blockSize) ==
  CASE operand.lifetime = "TEMPORARY_VARIABLE" -> Null
    [] operand.lifetime \in {"MODEL_INPUT", "MODEL_OUTPUT"} -> Null
    [] operand.lifetime = "CONSTANT_COPY" ->
         getDataFromBlock(blockSize, operand.location.offset, operand.location.length)
    [] operand.lifetime = "CONSTANT_REFERENCE" ->
         getDataFromPool(operand.location.poolIndex, operand.location.offset,
                         operand.location.length)
    [] OTHER -> Null

\* Model::createQuantizationValue: quant_value is uint32_t and zeroPoint
\* int32_t, so the difference is taken in uint32_t; the float handed to
\* createValues is that unsigned difference times the scale
createQuantizationValue(S, operand, quant_value) ==
  createValues(S, << [unsigned |-> SubU32(ToU32(quant_value),
                                          ToU32(S.ops[operand].zeroPoint)),
                      scale |-> S.ops[operand].scale] >>)

\* Model::createConvFilterTensor: NHWC -> HWCN transposed copy of the filter
createConvFilterTensor(S, operand) ==
  Then(getAlignedDimensions(S.ops[operand].dimensions, 4), LAMBDA dims :
    IF Len(dims) = 0
    THEN Ret(Logged(S, "Need at most 4 dimensions"), NoInput)
    ELSE createTensorInternal(S, dims[2], dims[3], dims[4], dims[1],
                              <<"transposed", operand>>))

\* Model::createDepthwiseFilterTensor: the filter's buffer as it is, under the
\* shape [H, W, C / depth_multiplier, N * depth_multiplier]
createDepthwiseFilterTensor(S, operand, depth_multiplier) ==
  Then(getAlignedDimensions(S.ops[operand].dimensions, 4), LAMBDA dims :
    IF Len(dims) = 0
    THEN Ret(Logged(S, "Need at most 4 dimensions"), NoInput)
    ELSE createTensorInternal(S, dims[2], dims[3], dims[4] \div depth_multiplier,
                              dims[1] * depth_multiplier, <<"operand", operand>>))

\* Model::createFullyConnectedWeightTensor: the dimensions are aligned to 4
\* axes, so dims[0] and dims[1] of the source are the two leading 1s when the
\* weights have two axes; the data is transpose(dims[0], dims[1], buffer)
createFullyConnectedWeightTensor(S, operand) ==
  Then(getAlignedDimensions(S.ops[operand].dimensions, 4), LAMBDA dims :
    IF Len(dims) = 0
    THEN Ret(Logged(S, "Need at most 2 dimensions"), NoInput)
    ELSE createTensorInternal(S, 1, 1, dims[2], dims[1],
                              <<"transposed", operand, dims[1], dims[2]>>))

\* Model::getFloatActivation
getFloatActivation(S, operand) == getFloatActivationFunction(getScalar(S, operand))

\* Model::getQuantizedActivation
getQuantizedActivation(S, operand) == getQuantizedActivationFunction(getScalar(S, operand))

\* verifyOperationInputs: no input is the unset handle
verifyOperationInputs(inputs) == \A i \in 1..Len(inputs) : inputs[i] # NoInput

\* verifyOperationOutputs: no output is the value-initialised descriptor
verifyOperationOutputs(outputs) == \A i \in 1..Len(outputs) : outputs[i] # NoOutput

\* Model::addOperationInternal: r is the new node's id, 0 on failure
addOperationInternal(S, op, pad, inputs, outputs) ==
  IF ~verifyOperationInputs(inputs)
  THEN Ret(Logged(S, "error adding operation: one or more inputs is invalid"), 0)
  ELSE IF ~verifyOperationOutputs(outputs)
  THEN Ret(Logged(S, "error adding operation: one or more outputs is invalid"), 0)
  ELSE Then(getNextNode(S), LAMBDA nn :
       Then(nn.s.na + 1 # nn.s.rej, LAMBDA accepted :
         Ret([nn.s EXCEPT
                !.na = @ + 1,
                !.calls = Append(@, Call("append_node", nn.s.gid, nn.r, op, pad,
                                         inputs, outputs, <<>>, <<>>, accepted))],
             IF accepted THEN nn.r ELSE 0)))

\* Model::getHexagonOutputs
RECURSIVE getHexagonOutputs(_, _)
getHexagonOutputs(S, operands) ==
  IF operands = <<>> THEN <<>>
  ELSE Then(S.ops[Head(operands)], LAMBDA operand :
         << make_hexagon_nn_output(operand.dimensions, getSize(operand.type)) >>
         \o (IF operand.type = "TENSOR_QUANT8_ASYMM"
             THEN << make_hexagon_nn_output(<<1, 1, 1, 1>>, 4),
                     make_hexagon_nn_output(<<1, 1, 1, 1>>, 4) >>
             ELSE <<>>)
         \o getHexagonOutputs(S, Tail(operands)))

\* Model::registerHexagonInputs, from operands[i] on with output slot idx
RECURSIVE registerFrom(_, _, _, _, _)
registerFrom(S, operands, node, i, idx) ==
  IF i > Len(operands) THEN Ret(S, TRUE)
  ELSE Then(operands[i], LAMBDA o :
         IF S.ops[o].hexagon_input # NoInput
         THEN Ret(Logged(S, "Error: operation output has already been registered"), FALSE)
         ELSE IF S.ops[o].type = "TENSOR_QUANT8_ASYMM"
         THEN registerFrom([Assigned(S, o, <<node, idx>>) EXCEPT
                              !.ops[o].hexagon_input_min = <<node, idx + 1>>,
                              !.ops[o].hexagon_input_max = <<node, idx + 2>>],
                           operands, node, i + 1, idx + 3)
         ELSE registerFrom(Assigned(S, o, <<node, idx>>), operands, node, i + 1, idx + 1))

\* Model::registerHexagonInputs
registerHexagonInputs(S, operands, node) == registerFrom(S, operands, node, 1, 0)

\* Model::addBasicOperation
addBasicOperation(S, op, pad, inputs, outputs) ==
  Then(getHexagonOutputs(S, outputs), LAMBDA outs :
  Then(addOperationInternal(S, op, pad, inputs, outs), LAMBDA n :
    IF n.r = 0
    THEN Ret(Logged(n.s, "Error adding base operation"), FALSE)
    ELSE registerHexagonInputs(n.s, outputs, n.r)))

\* setupActivationArgs giving the clamp its upper bound only
setupActivationArgs_upper(S, op) ==
  CASE op \in {"OP_Nop", "OP_Relu_f", "OP_QuantizedRelu_8"} -> Ret(S, <<>>)
    [] op \in {"OP_ReluX_f", "OP_QuantizedReluX_8"} ->
         Then(createValues(S, <<6>>), LAMBDA a : Ret(a.s, <<a.r>>))
    [] op \in {"OP_Clamp_f", "OP_QuantizedClamp_8"} ->
         Then(createValues(S, <<1>>), LAMBDA b : Ret(b.s, <<b.r>>))
    [] OTHER -> Ret(Logged(S, "Unknown activation symbol"), <<>>)

\* Model::setupActivationArgs: r is the vector of extra activation inputs
setupActivationArgs(S, op) ==
  CASE op \in {"OP_Nop", "OP_Relu_f", "OP_QuantizedRelu_8"} -> Ret(S, <<>>)
    [] op \in {"OP_ReluX_f", "OP_QuantizedReluX_8"} ->
         Then(createValues(S, <<6>>), LAMBDA a : Ret(a.s, <<a.r>>))
    [] op \in {"OP_Clamp_f", "OP_QuantizedClamp_8"} ->
         Then(createValues(S, <<-1>>), LAMBDA a :
         Then(createValues(a.s, <<1>>), LAMBDA b : Ret(b.s, <<a.r, b.r>>)))
    [] OTHER -> Ret(Logged(S, "Unknown activation symbol"), <<>>)

\* Model::addFloatOperationWithActivation
addFloatOperationWithActivation(S, op, pad, activation, inputs, outputs) ==
  Then(getHexagonOutputs(S, outputs), LAMBDA outs :
  Then(setupActivationArgs(S, activation), LAMBDA actArgs :
  Then(addOperationInternal(actArgs.s, op, pad, inputs, outs), LAMBDA n1 :
    IF n1.r = 0 THEN Ret(Logged(n1.s, "Error adding base operation"), FALSE) ELSE
  Then(addOperationInternal(n1.s, activation, "NN_PAD_NA",
                            << <<n1.r, 0>> >> \o actArgs.r, outs), LAMBDA n2 :
    IF n2.r = 0 THEN Ret(Logged(n2.s, "Error adding activation operation"), FALSE)
    ELSE registerHexagonInputs(n2.s, outputs, n2.r)))))

\* Model::addQuant8OperationWithActivation
addQuant8OperationWithActivation(S, op, pad, activation, inputs, outputs) ==
  Then(getHexagonOutputs(S, outputs), LAMBDA outs :
  Then(setupActivationArgs(S, activation), LAMBDA actArgs :
  Then(addOperationInternal(actArgs.s, op, pad, inputs, outs), LAMBDA n1 :
    IF n1.r = 0 THEN Ret(Logged(n1.s, "Error adding base operation"), FALSE) ELSE
  Then(addOperationInternal(n1.s, activation, "NN_PAD_NA",
                            << <<n1.r, 0>>, <<n1.r, 1>>, <<n1.r, 2>> >> \o actArgs.r, outs),
       LAMBDA n2 :
    IF n2.r = 0 THEN Ret(Logged(n2.s, "Error adding activation operation"), FALSE)
    ELSE registerHexagonInputs(n2.s, outputs, n2.r)))))

\* addFusedFloatOperation appending no node for the no-op activation
addFusedFloatOperation_eliding(S, op, pad, bias, activation, inputs, outputs) ==
  IF Len(outputs) # 1
  THEN Ret(Logged(S, "addFusedFloatOperation requires 1 output"), FALSE)
  ELSE
  Then(getHexagonOutputs(S, outputs), LAMBDA outs :
  Then(setupActivationArgs(S, activation), LAMBDA actArgs :
  Then(addOperationInternal(actArgs.s, op, pad, inputs, outs), LAMBDA n1 :
    IF n1.r = 0 THEN Ret(Logged(n1.s, "Error adding base operation"), FALSE) ELSE
  Then(IF bias # NoInput
       THEN addOperationInternal(n1.s, "OP_BiasAdd_f", "NN_PAD_NA",
                                 << <<n1.r, 0>>, bias >>, outs)
       ELSE n1, LAMBDA n2 :
    IF n2.r = 0 THEN Ret(Logged(n2.s, "Error adding bias operation"), FALSE) ELSE
  Then(IF activation = "OP_Nop" THEN n2
       ELSE addOperationInternal(n2.s, activation, "NN_PAD_NA",
                                 << <<n2.r, 0>> >> \o actArgs.r, outs), LAMBDA n3 :
    IF n3.r = 0 THEN Ret(Logged(n3.s, "Error adding activation operation"), FALSE)
    ELSE registerHexagonInputs(n3.s, outputs, n3.r))))))

\* Model::addFusedFloatOperation: base op, bias add when a bias handle is
\* given, activation
addFusedFloatOperation(S, op, pad, bias, activation, inputs, outputs) ==
  IF Len(outputs) # 1
  THEN Ret(Logged(S, "addFusedFloatOperation requires 1 output"), FALSE)
  ELSE
  Then(getHexagonOutputs(S, outputs), LAMBDA outs :
  Then(setupActivationArgs(S, activation), LAMBDA actArgs :
  Then(addOperationInternal(actArgs.s, op, pad, inputs, outs), LAMBDA n1 :
    IF n1.r = 0 THEN Ret(Logged(n1.s, "Error adding base operation"), FALSE) ELSE
  Then(IF bias # NoInput
       THEN addOperationInternal(n1.s, "OP_BiasAdd_f", "NN_PAD_NA",
                                 << <<n1.r, 0>>, bias >>, outs)
       ELSE n1, LAMBDA n2 :
    IF n2.r = 0 THEN Ret(Logged(n2.s, "Error adding bias operation"), FALSE) ELSE
  Then(addOperationInternal(n2.s, activation, "NN_PAD_NA",
                            << <<n2.r, 0>> >> \o actArgs.r, outs), LAMBDA n3 :
    IF n3.r = 0 THEN Ret(Logged(n3.s, "Error adding activation operation"), FALSE)
    ELSE registerHexagonInputs(n3.s, outputs, n3.r))))))

\* Model::addFusedQuant8Operation: base op (32 bit), bias add when a bias
\* handle is given, requantize to 8 bit, activation
addFusedQuant8Operation(S, op, pad, bias, activation, inputs, outputs) ==
  IF Len(outputs) # 1
  THEN Ret(Logged(S, "addFusedQuant8Operation requires 1 output"), FALSE)
  ELSE
  Then(make_hexagon_nn_output(S.ops[outputs[1]].dimensions, 1), LAMBDA tensor_out8 :
  Then(make_hexagon_nn_output(S.ops[outputs[1]].dimensions, 4), LAMBDA tensor_out32 :
  Then(make_hexagon_nn_output(<<1, 1, 1, 1>>, 4), LAMBDA scalar_out32 :
  Then(<<tensor_out8, scalar_out32, scalar_out32>>, LAMBDA out8 :
  Then(<<tensor_out32, scalar_out32, scalar_out32>>, LAMBDA out32 :
  Then(setupActivationArgs(S, activation), LAMBDA actArgs :
  Then(addOperationInternal(actArgs.s, op, pad, inputs, out32), LAMBDA n1 :
    IF n1.r = 0 THEN Ret(Logged(n1.s, "Error adding base operation"), FALSE) ELSE
  Then(IF bias # NoInput
       THEN addOperationInternal(n1.s, "OP_Add_int32", "NN_PAD_NA",
                                 << <<n1.r, 0>>, bias >>, <<tensor_out32>>)
       ELSE n1, LAMBDA n2 :
    IF n2.r = 0 THEN Ret(Logged(n2.s, "Error adding bias operation"), FALSE) ELSE
  Then(getQuantizationMin(n2.s, outputs[1]), LAMBDA new_min :
  Then(getQuantizationMax(new_min.s, outputs[1]), LAMBDA new_max :
  Then(addOperationInternal(new_max.s, "OP_Requantize_32to8", "NN_PAD_NA",
         << <<n2.r, 0>>, <<n1.r, 1>>, <<n1.r, 2>>, new_min.r, new_max.r >>, out8),
       LAMBDA n3 :
    IF n3.r = 0 THEN Ret(Logged(n3.s, "Error adding requantize operation"), FALSE) ELSE
  Then(addOperationInternal(n3.s, activation, "NN_PAD_NA",
         << <<n3.r, 0>>, <<n3.r, 1>>, <<n3.r, 2>> >> \o actArgs.r, out8), LAMBDA n4 :
    IF n4.r = 0 THEN Ret(Logged(n4.s, "Error adding activation operation"), FALSE)
    ELSE registerHexagonInputs(n4.s, outputs, n4.r)))))))))))))

\* ------------------------------ shape functions of the NN framework library
\* (android::nn, OperationsUtils: outside this repository; modelled by their
\* contract: r is the success flag, dims the output dimensions they set)
\* padding schemes
kPaddingUnknown == 0
kPaddingSame == 1
kPaddingValid == 2

Shaped(ok, dims) == [r |-> ok, dimensions |-> dims]

\* SetShape(in, out): the output takes the input's dimensions; type and rank
\* must agree
SetShape(in, out) ==
  IF in.type # out.type \/ Len(in.dimensions) # Len(out.dimensions)
  THEN Shaped(FALSE, out.dimensions)
  ELSE Shaped(TRUE, in.dimensions)

\* dimension i counted from the last axis, 1 when the shape has no such axis
DimFromEnd(dims, i) == IF i <= Len(dims) THEN dims[Len(dims) - i + 1] ELSE 1

\* addMulPrepare(in1, in2, out): broadcast shape of the two inputs
addMulPrepare(in1, in2, out) ==
  IF ~(Len(in1.dimensions) <= 4 /\ Len(in2.dimensions) <= 4) \/ in1.type # in2.type
  THEN Shaped(FALSE, out.dimensions)
  ELSE IF in1.dimensions = in2.dimensions
  THEN SetShape(in1, out)
  ELSE LET maxDims == Max(Len(in1.dimensions), Len(in2.dimensions))
           ok == \A i \in 1..maxDims :
                   LET d1 == DimFromEnd(in1.dimensions, i)
                       d2 == DimFromEnd(in2.dimensions, i)
                   IN d1 = d2 \/ d1 = 1 \/ d2 = 1
       IN IF ~ok THEN Shaped(FALSE, out.dimensions)
          ELSE Shaped(TRUE, [k \in 1..maxDims |->
                               Max(DimFromEnd(in1.dimensions, maxDims - k + 1),
                                   DimFromEnd(in2.dimensions, maxDims - k + 1))])

\* genericActivationPrepare(in, out)
genericActivationPrepare(in, out) ==
  IF ~(Len(in.dimensions) <= 4) THEN Shaped(FALSE, out.dimensions) ELSE SetShape(in, out)

\* getPaddingScheme(filterWidth, filterHeight, left, right, top, bottom)
getPaddingScheme(filterWidth, filterHeight, paddingLeft, paddingRight, paddingTop, paddingBottom) ==
  IF paddingLeft > paddingRight \/ paddingTop > paddingBottom THEN kPaddingUnknown
  ELSE IF paddingLeft + paddingRight = filterWidth - 1
          /\ paddingTop + paddingBottom = filterHeight - 1 THEN kPaddingSame
  ELSE IF paddingLeft + paddingRight = 0 /\ paddingTop + paddingBottom = 0 THEN kPaddingValid
  ELSE kPaddingUnknown

\* calculateExplicitPadding(in_size, stride, filter_size, scheme): <<head, tail>>
calculateExplicitPadding(in_size, stride, filter_size, padding_implicit) ==
  IF padding_implicit = kPaddingSame
  THEN LET out_size == (in_size + stride - 1) \div stride
           tmp == (out_size - 1) * stride + filter_size
       IN IF tmp > in_size
          THEN <<(tmp - in_size) \div 2, (tmp - in_size) - ((tmp - in_size) \div 2)>>
          ELSE <<0, 0>>
  ELSE <<0, 0>>

\* computeOutSize(imageSize, filterSize, stride, paddingHead, paddingTail)
computeOutSize(imageSize, filterSize, stride, paddingHead, paddingTail) ==
  (imageSize - filterSize + stride + paddingHead + paddingTail) \div stride

\* convPrepare(input, filter, bias, paddings, strides, out)
convPrepare(input, filter, bias, pl, pr, pt, pb, sw, sh, out) ==
  IF ~( input.type = filter.type
        /\ (IF input.type = "TENSOR_QUANT8_ASYMM" THEN bias.type = "TENSOR_INT32"
                                                   ELSE bias.type = input.type)
        /\ Len(input.dimensions) = 4 /\ Len(filter.dimensions) = 4
        /\ Len(bias.dimensions) = 1
        /\ filter.dimensions[1] = bias.dimensions[1]
        /\ filter.dimensions[4] = input.dimensions[4] )
  THEN Shaped(FALSE, out.dimensions)
  ELSE Shaped(TRUE, << input.dimensions[1],
                       computeOutSize(input.dimensions[2], filter.dimensions[2], sh, pt, pb),
                       computeOutSize(input.dimensions[3], filter.dimensions[3], sw, pl, pr),
                       filter.dimensions[1] >>)

\* depthwiseConvPrepare(input, filter, bias, paddings, strides, out)
depthwiseConvPrepare(input, filter, bias, pl, pr, pt, pb, sw, sh, out) ==
  IF ~( input.type = filter.type
        /\ (IF input.type = "TENSOR_QUANT8_ASYMM" THEN bias.type = "TENSOR_INT32"
                                                   ELSE bias.type = input.type)
        /\ Len(input.dimensions) = 4 /\ Len(filter.dimensions) = 4
        /\ Len(bias.dimensions) = 1
        /\ filter.dimensions[4] = bias.dimensions[1] )
  THEN Shaped(FALSE, out.dimensions)
  ELSE Shaped(TRUE, << input.dimensions[1],
                       computeOutSize(input.dimensions[2], filter.dimensions[2], sh, pt, pb),
                       computeOutSize(input.dimensions[3], filter.dimensions[3], sw, pl, pr),
                       filter.dimensions[4] >>)

\* fullyConnectedPrepare(input, weights, bias, out): weights are [num_units,
\* input_size], the input is read as [batch_size, input_size]
fullyConnectedPrepare(input, weights, bias, out) ==
  IF ~( input.type = weights.type
        /\ (IF input.type = "TENSOR_QUANT8_ASYMM" THEN bias.type = "TENSOR_INT32"
                                                   ELSE bias.type = input.type)
        /\ Len(input.dimensions) >= 2 /\ Len(weights.dimensions) = 2
        /\ Len(bias.dimensions) = 1
        /\ weights.dimensions[2] > 0
        /\ bias.dimensions[1] = weights.dimensions[1]
        /\ weights.dimensions[2] * (Product(input.dimensions) \div weights.dimensions[2])
             = Product(input.dimensions) )
  THEN Shaped(FALSE, out.dimensions)
  ELSE Shaped(TRUE, << Product(input.dimensions) \div weights.dimensions[2],
                       weights.dimensions[1] >>)

\* genericPoolingPrepare(input, paddings, strides, filter size, out)
genericPoolingPrepare(input, pl, pr, pt, pb, sw, sh, fw, fh, out) ==
  IF Len(input.dimensions) # 4
  THEN Shaped(FALSE, out.dimensions)
  ELSE Shaped(TRUE, << input.dimensions[1],
                       computeOutSize(input.dimensions[2], fh, sh, pt, pb),
                       computeOutSize(input.dimensions[3], fw, sw, pl, pr),
                       input.dimensions[4] >>)

\* getPadding(uint32_t pad) (part_001)
getPaddingOf(pad) ==
  CASE pad = kPaddingSame -> "NN_PAD_SAME"
    [] pad = kPaddingValid -> "NN_PAD_VALID"
    [] OTHER -> "NN_PAD_NA"

\* getPadding(filterWidth, filterHeight, left, right, top, bottom) (part_001)
getPadding(filterWidth, filterHeight, paddingLeft, paddingRight, paddingTop, paddingBottom) ==
  getPaddingOf(getPaddingScheme(filterWidth, filterHeight, paddingLeft, paddingRight,
                                paddingTop, paddingBottom))

\* ------------------- operation checks (src/1.0/HexagonOperationsCheck.cpp)
\* the common tail of every check: HEXAGON_SOFT_ASSERT(<op>Prepare(...)) and
\* HEXAGON_SOFT_ASSERT(model->setShape(outs[0], outShape))
checkedShape(S, out, p) ==
  IF ~p.r THEN Ret(Logged(S, "Error getting shape"), FALSE)
  ELSE Then(setShape(S, out, [dimensions |-> p.dimensions]), LAMBDA t :
         IF ~t.r THEN Ret(Logged(t.s, "Error setting shape"), FALSE) ELSE Ret(t.s, TRUE))

\* addMul (check of ADD and MUL)
checkAddMul(S, ins, outs, op) ==
  IF Len(ins) # 3 THEN Ret(Logged(S, "Need 3 inputs for " \o op), FALSE)
  ELSE IF Len(outs) # 1 THEN Ret(Logged(S, "Need 1 output for " \o op), FALSE)
  ELSE checkedShape(S, outs[1],
         addMulPrepare(getShape(S, ins[1]), getShape(S, ins[2]), getShape(S, outs[1])))

\* pool (check of AVERAGE_POOL_2D, L2_POOL_2D and MAX_POOL_2D)
checkPool(S, ins, outs, op) ==
  IF ~(Len(ins) = 10 \/ Len(ins) = 7)
  THEN Ret(Logged(S, "Need 7 or 10 inputs for " \o op), FALSE)
  ELSE
  LET inShape == getShape(S, ins[1])
  IN IF Len(ins) = 10
     THEN LET padding_left == getScalar(S, ins[2])
              padding_right == getScalar(S, ins[3])
              padding_top == getScalar(S, ins[4])
              padding_bottom == getScalar(S, ins[5])
              stride_width == getScalar(S, ins[6])
              stride_height == getScalar(S, ins[7])
              filter_width == getScalar(S, ins[8])
              filter_height == getScalar(S, ins[9])
          IN IF getPadding(filter_width, filter_height, padding_left, padding_right,
                           padding_top, padding_bottom) = "NN_PAD_NA"
             THEN Ret(Logged(S, "Unknown padding"), FALSE)
             ELSE checkedShape(S, outs[1],
                    genericPoolingPrepare(inShape, padding_left, padding_right, padding_top,
                                          padding_bottom, stride_width, stride_height,
                                          filter_width, filter_height, getShape(S, outs[1])))
     ELSE LET padding_implicit == getScalar(S, ins[2])
              stride_width == getScalar(S, ins[3])
              stride_height == getScalar(S, ins[4])
              filter_width == getScalar(S, ins[5])
              filter_height == getScalar(S, ins[6])
              lr == calculateExplicitPadding(inShape.dimensions[3], stride_width,
                                             filter_width, padding_implicit)
              tb == calculateExplicitPadding(inShape.dimensions[2], stride_height,
                                             filter_height, padding_implicit)
          IN checkedShape(S, outs[1],
               genericPoolingPrepare(inShape, lr[1], lr[2], tb[1], tb[2], stride_width,
                                     stride_height, filter_width, filter_height,
                                     getShape(S, outs[1])))

\* conv_2d (check)
checkConv2d(S, ins, outs) ==
  IF ~(Len(ins) = 10 \/ Len(ins) = 7)
  THEN Ret(Logged(S, "Need 7 or 10 inputs for CONV_2D"), FALSE)
  ELSE IF Len(outs) # 1 THEN Ret(Logged(S, "Need 1 output for CONV_2D"), FALSE)
  ELSE
  LET inputShape == getShape(S, ins[1])
      filterShape == getShape(S, ins[2])
      biasShape == getShape(S, ins[3])
      explicit == Len(ins) = 10
      lr == IF explicit THEN <<getScalar(S, ins[4]), getScalar(S, ins[5])>>
            ELSE calculateExplicitPadding(inputShape.dimensions[3], getScalar(S, ins[5]),
                                          filterShape.dimensions[3], getScalar(S, ins[4]))
      tb == IF explicit THEN <<getScalar(S, ins[6]), getScalar(S, ins[7])>>
            ELSE calculateExplicitPadding(inputShape.dimensions[2], getScalar(S, ins[6]),
                                          filterShape.dimensions[2], getScalar(S, ins[4]))
      stride_width == IF explicit THEN getScalar(S, ins[8]) ELSE getScalar(S, ins[5])
      stride_height == IF explicit THEN getScalar(S, ins[9]) ELSE getScalar(S, ins[6])
  IN IF explicit /\ getPadding(filterShape.dimensions[3], filterShape.dimensions[2],
                               lr[1], lr[2], tb[1], tb[2]) = "NN_PAD_NA"
     THEN Ret(Logged(S, "Unknown padding"), FALSE)
     ELSE Then(checkedShape(S, outs[1],
                 convPrepare(inputShape, filterShape, biasShape, lr[1], lr[2], tb[1],
                             tb[2], stride_width, stride_height, getShape(S, outs[1]))),
               LAMBDA c :
            IF ~c.r THEN c
            ELSE IF ~isConstant(c.s, ins[2])
            THEN Ret(Logged(c.s, "CONV_2D requires filter to be constant data"), FALSE)
            ELSE c)

\* depthwise_conv_2d (check)
checkDepthwiseConv2d(S, ins, outs) ==
  IF ~(Len(ins) = 8 \/ Len(ins) = 11)
  THEN Ret(Logged(S, "Need 8 or 11 inputs for DEPTHWISE_CONV_2D"), FALSE)
  ELSE IF Len(outs) # 1 THEN Ret(Logged(S, "Need 1 output for DEPTHWISE_CONV_2D"), FALSE)
  ELSE
  LET inputShape == getShape(S, ins[1])
      filterShape == getShape(S, ins[2])
      biasShape == getShape(S, ins[3])
      explicit == Len(ins) = 11
      lr == IF explicit THEN <<getScalar(S, ins[4]), getScalar(S, ins[5])>>
            ELSE calculateExplicitPadding(inputShape.dimensions[3], getScalar(S, ins[5]),
                                          filterShape.dimensions[3], getScalar(S, ins[4]))
      tb == IF explicit THEN <<getScalar(S, ins[6]), getScalar(S, ins[7])>>
            ELSE calculateExplicitPadding(inputShape.dimensions[2], getScalar(S, ins[6]),
                                          filterShape.dimensions[2], getScalar(S, ins[4]))
      stride_width == IF explicit THEN getScalar(S, ins[8]) ELSE getScalar(S, ins[5])
      stride_height == IF explicit THEN getScalar(S, ins[9]) ELSE getScalar(S, ins[6])
  IN IF explicit /\ getPadding(filterShape.dimensions[3], filterShape.dimensions[2],
                               lr[1], lr[2], tb[1], tb[2]) = "NN_PAD_NA"
     THEN Ret(Logged(S, "Unknown padding"), FALSE)
     ELSE Then(checkedShape(S, outs[1],
                 depthwiseConvPrepare(inputShape, filterShape, biasShape, lr[1], lr[2],
                                      tb[1], tb[2], stride_width, stride_height,
                                      getShape(S, outs[1]))),
               LAMBDA c :
            IF ~c.r THEN c
            ELSE IF ~isConstant(c.s, ins[2])
            THEN Ret(Logged(c.s, "DEPTHWISE_CONV_2D requires filter to be constant data"),
                     FALSE)
            ELSE c)

\* fully_connected (check)
checkFullyConnected(S, ins, outs) ==
  IF Len(ins) # 4 THEN Ret(Logged(S, "Need 4 inputs for FULLY_CONNECTED"), FALSE)
  ELSE IF Len(outs) # 1 THEN Ret(Logged(S, "Need 1 output for FULLY_CONNECTED"), FALSE)
  ELSE Then(checkedShape(S, outs[1],
              fullyConnectedPrepare(getShape(S, ins[1]), getShape(S, ins[2]),
                                    getShape(S, ins[3]), getShape(S, outs[1]))),
            LAMBDA c :
         IF ~c.r THEN c
         ELSE IF ~isConstant(c.s, ins[2])
         THEN Ret(Logged(c.s, "FULLY_CONNECTED requires weight to be constant data"), FALSE)
         ELSE c)

\* fully_connected (check) of the older HexagonOperationsCheck (part_003):
\* the weights may be any operand
checkFullyConnectedOlder(S, ins, outs) ==
  IF Len(ins) # 4 THEN Ret(Logged(S, "Need 4 inputs for FULLY_CONNECTED"), FALSE)
  ELSE IF Len(outs) # 1 THEN Ret(Logged(S, "Need 1 output for FULLY_CONNECTED"), FALSE)
  ELSE checkedShape(S, outs[1],
         fullyConnectedPrepare(getShape(S, ins[1]), getShape(S, ins[2]),
                               getShape(S, ins[3]), getShape(S, outs[1])))

\* conv_2d and depthwise_conv_2d (check) of the older HexagonOperationsCheck
\* (part_003): explicit paddings only, and the filter may be any operand
checkConvOlder(S, ins, outs, op) ==
  IF Len(ins) # (IF op = "CONV_2D" THEN 10 ELSE 11)
  THEN Ret(Logged(S, "Need inputs for " \o op), FALSE)
  ELSE IF Len(outs) # 1 THEN Ret(Logged(S, "Need 1 output for " \o op), FALSE)
  ELSE
  LET inputShape == getShape(S, ins[1])
      filterShape == getShape(S, ins[2])
      biasShape == getShape(S, ins[3])
  IN checkedShape(S, outs[1],
       IF op = "CONV_2D"
       THEN convPrepare(inputShape, filterShape, biasShape, getScalar(S, ins[4]),
                        getScalar(S, ins[5]), getScalar(S, ins[6]), getScalar(S, ins[7]),
                        getScalar(S, ins[8]), getScalar(S, ins[9]), getShape(S, outs[1]))
       ELSE depthwiseConvPrepare(inputShape, filterShape, biasShape, getScalar(S, ins[4]),
                                 getScalar(S, ins[5]), getScalar(S, ins[6]),
                                 getScalar(S, ins[7]), getScalar(S, ins[8]),
                                 getScalar(S, ins[9]), getShape(S, outs[1])))

\* activation (check of LOGISTIC, RELU, RELU1, RELU6, SOFTMAX and TANH)
checkActivation(S, ins, outs, numInputs, op) ==
  IF Len(ins) # numInputs THEN Ret(Logged(S, "Need input for " \o op), FALSE)
  ELSE IF Len(outs) # 1 THEN Ret(Logged(S, "Need 1 output for " \o op), FALSE)
  ELSE checkedShape(S, outs[1],
         genericActivationPrepare(getShape(S, ins[1]), getShape(S, outs[1])))

\* getOperationCheckTable: the operation kinds that have a check
OperationCheckTable ==
  {"ADD", "AVERAGE_POOL_2D", "CONCATENATION", "CONV_2D", "DEPTHWISE_CONV_2D",
   "DEQUANTIZE", "FULLY_CONNECTED", "L2_POOL_2D", "LOCAL_RESPONSE_NORMALIZATION",
   "LOGISTIC", "MAX_POOL_2D", "MUL", "RELU", "RELU1", "RELU6", "RESHAPE",
   "RESIZE_BILINEAR", "SOFTMAX", "TANH"}

\* entry->second(operation.inputs, operation.outputs, this) for the kinds
\* the models above use
checkOperation(S, operation) ==
  CASE operation.type \in {"ADD", "MUL"} ->
         checkAddMul(S, operation.inputs, operation.outputs, operation.type)
    [] operation.type \in {"AVERAGE_POOL_2D", "L2_POOL_2D", "MAX_POOL_2D"} ->
         checkPool(S, operation.inputs, operation.outputs, operation.type)
    [] operation.type = "CONV_2D" ->
         checkConv2d(S, operation.inputs, operation.outputs)
    [] operation.type = "DEPTHWISE_CONV_2D" ->
         checkDepthwiseConv2d(S, operation.inputs, operation.outputs)
    [] operation.type = "FULLY_CONNECTED" ->
         checkFullyConnected(S, operation.inputs, operation.outputs)
    [] operation.type \in {"LOGISTIC", "RELU", "RELU1", "RELU6", "TANH"} ->
         checkActivation(S, operation.inputs, operation.outputs, 1, operation.type)
    [] operation.type = "SOFTMAX" ->
         checkActivation(S, operation.inputs, operation.outputs, 2, operation.type)

\* Model::supportedOperations, from operation i on: r is the bool vector
RECURSIVE supportedFrom(_, _, _)
supportedFrom(S, operations, i) ==
  IF i > Len(operations) THEN Ret(S, <<>>)
  ELSE IF operations[i].type \in OperationCheckTable
  THEN Then(checkOperation(S, operations[i]), LAMBDA c :
       Then(supportedFrom(c.s, operations, i + 1), LAMBDA rest :
         Ret(rest.s, <<c.r>> \o rest.r)))
  ELSE Then(supportedFrom(S, operations, i + 1), LAMBDA rest :
         Ret(rest.s, <<FALSE>> \o rest.r))

\* Model::supportedOperations
supportedOperations(S, operations) == supportedFrom(S, operations, 1)

\* Model::supportedOperations with the checks of the older
\* HexagonOperationsCheck (part_003), from operation i on
RECURSIVE supportedFromOlder(_, _, _)
supportedFromOlder(S, operations, i) ==
  IF i > Len(operations) THEN Ret(S, <<>>)
  ELSE IF operations[i].type \in OperationCheckTable
  THEN Then(IF operations[i].type \in {"CONV_2D", "DEPTHWISE_CONV_2D"}
            THEN checkConvOlder(S, operations[i].inputs, operations[i].outputs,
                                operations[i].type)
            ELSE IF operations[i].type = "FULLY_CONNECTED"
            THEN checkFullyConnectedOlder(S, operations[i].inputs, operations[i].outputs)
            ELSE checkOperation(S, operations[i]), LAMBDA c :
       Then(supportedFromOlder(c.s, operations, i + 1), LAMBDA rest :
         Ret(rest.s, <<c.r>> \o rest.r)))
  ELSE Then(supportedFromOlder(S, operations, i + 1), LAMBDA rest :
         Ret(rest.s, <<FALSE>> \o rest.r))

\* ----------- lowering functions (src/1.0/HexagonOperationsCheck.cpp, 2nd part)
\* float32::add / float32::mul
float32_addMul(S, ins, outs, op, name) ==
  IF Len(ins) # 3 THEN Ret(Logged(S, "Need 3 inputs for float32::" \o name), FALSE)
  ELSE IF Len(outs) # 1 THEN Ret(Logged(S, "Need 1 output for float32::" \o name), FALSE)
  ELSE
  Then(getTensor(S, ins[1]), LAMBDA in1 :
  Then(getTensor(in1.s, ins[2]), LAMBDA in2 :
  Then(getFloatActivation(in2.s, ins[3]), LAMBDA act :
    addFusedFloatOperation(in2.s, op, "NN_PAD_NA", NoInput, act, <<in1.r, in2.r>>, outs))))

\* float32::average_pool_2d / l2_pool_2d / max_pool_2d
float32_pool(S, ins, outs, op, name) ==
  IF Len(ins) # 10 THEN Ret(Logged(S, "Need 10 inputs for float32::" \o name), FALSE)
  ELSE IF Len(outs) # 1 THEN Ret(Logged(S, "Need 1 output for float32::" \o name), FALSE)
  ELSE
  Then(getTensor(S, ins[1]), LAMBDA input :
  Then(getFloatActivation(S, ins[10]), LAMBDA act :
  Then(createShape(input.s, 1, getScalar(S, ins[9]), getScalar(S, ins[8]), 1), LAMBDA window :
  Then(createShape(window.s, 1, getScalar(S, ins[7]), getScalar(S, ins[6]), 1), LAMBDA stride :
  Then(getPadding(getScalar(S, ins[8]), getScalar(S, ins[9]), getScalar(S, ins[2]),
                  getScalar(S, ins[3]), getScalar(S, ins[4]), getScalar(S, ins[5])),
       LAMBDA pad :
    addFloatOperationWithActivation(stride.s, op, pad, act,
                                    <<input.r, window.r, stride.r>>, outs))))))

\* float32::conv_2d
float32_conv_2d(S, ins, outs) ==
  IF Len(ins) # 10 THEN Ret(Logged(S, "Need 10 inputs for float32::conv_2d"), FALSE)
  ELSE IF Len(outs) # 1 THEN Ret(Logged(S, "Need 1 output for float32::conv_2d"), FALSE)
  ELSE
  Then(getTensor(S, ins[1]), LAMBDA input :
  Then(createConvFilterTensor(input.s, ins[2]), LAMBDA filter :
  Then(getTensor(filter.s, ins[3]), LAMBDA bias :
  Then(getFloatActivation(S, ins[10]), LAMBDA act :
  Then(createShape(bias.s, 1, getScalar(S, ins[9]), getScalar(S, ins[8]), 1), LAMBDA stride :
  Then(getShape(S, ins[2]), LAMBDA filterShape :
  Then(getPadding(filterShape.dimensions[3], filterShape.dimensions[2],
                  getScalar(S, ins[4]), getScalar(S, ins[5]),
                  getScalar(S, ins[6]), getScalar(S, ins[7])), LAMBDA pad :
    addFusedFloatOperation(stride.s, "OP_Conv2d_f", pad, bias.r, act,
                           <<input.r, filter.r, stride.r>>, outs))))))))

\* float32::logistic / relu / tanh: one input, one node
float32_unary(S, ins, outs, op, name) ==
  IF Len(ins) # 1 THEN Ret(Logged(S, "Need 1 input for float32::" \o name), FALSE)
  ELSE IF Len(outs) # 1 THEN Ret(Logged(S, "Need 1 output for float32::" \o name), FALSE)
  ELSE Then(getTensor(S, ins[1]), LAMBDA input :
         addBasicOperation(input.s, op, "NN_PAD_NA", <<input.r>>, outs))

\* quant8_asym::add / quant8_asym::mul
quant8_asym_addMul(S, ins, outs, op, name) ==
  IF Len(ins) # 3 THEN Ret(Logged(S, "Need 3 inputs for quant8_asym::" \o name), FALSE)
  ELSE IF Len(outs) # 1 THEN Ret(Logged(S, "Need 1 output for quant8_asym::" \o name), FALSE)
  ELSE
  Then(getTensor(S, ins[1]), LAMBDA in1 :
  Then(getTensor(in1.s, ins[2]), LAMBDA in2 :
  Then(getQuantizedActivation(S, ins[3]), LAMBDA act :
  Then(getQuantizationMin(in2.s, ins[1]), LAMBDA in1_min :
  Then(getQuantizationMax(in1_min.s, ins[1]), LAMBDA in1_max :
  Then(getQuantizationMin(in1_max.s, ins[2]), LAMBDA in2_min :
  Then(getQuantizationMax(in2_min.s, ins[2]), LAMBDA in2_max :
    addFusedQuant8Operation(in2_max.s, op, "NN_PAD_NA", NoInput, act,
      <<in1.r, in1_min.r, in1_max.r, in2.r, in2_min.r, in2_max.r>>, outs))))))))

\* quant8_asym::conv_2d
quant8_asym_conv_2d(S, ins, outs) ==
  IF Len(ins) # 10 THEN Ret(Logged(S, "Need 10 inputs for quant8_asym::conv_2d"), FALSE)
  ELSE IF Len(outs) # 1 THEN Ret(Logged(S, "Need 1 output for quant8_asym::conv_2d"), FALSE)
  ELSE
  Then(getTensor(S, ins[1]), LAMBDA input :
  Then(createConvFilterTensor(input.s, ins[2]), LAMBDA filter :
  Then(getTensor(filter.s, ins[3]), LAMBDA bias :
  Then(getQuantizedActivation(S, ins[10]), LAMBDA act :
  Then(getQuantizationMin(bias.s, ins[1]), LAMBDA input_min :
  Then(getQuantizationMax(input_min.s, ins[1]), LAMBDA input_max :
  Then(getQuantizationMin(input_max.s, ins[2]), LAMBDA filter_min :
  Then(getQuantizationMax(filter_min.s, ins[2]), LAMBDA filter_max :
  Then(createShape(filter_max.s, 1, getScalar(S, ins[9]), getScalar(S, ins[8]), 1),
       LAMBDA stride :
  Then(getShape(S, ins[2]), LAMBDA filterShape :
  Then(getPadding(filterShape.dimensions[3], filterShape.dimensions[2],
                  getScalar(S, ins[4]), getScalar(S, ins[5]),
                  getScalar(S, ins[6]), getScalar(S, ins[7])), LAMBDA pad :
    addFusedQuant8Operation(stride.s, "OP_QuantizedConv2d_8x8to32", pad, bias.r, act,
      <<input.r, filter.r, input_min.r, input_max.r, filter_min.r, filter_max.r,
        stride.r>>, outs))))))))))))

\* float32::fully_connected
float32_fully_connected(S, ins, outs) ==
  IF Len(ins) # 4
  THEN Ret(Logged(S, "Need 4 inputs for float32::fully_connected"), FALSE)
  ELSE IF Len(outs) # 1
  THEN Ret(Logged(S, "Need 1 output for float32::fully_connected"), FALSE)
  ELSE
  Then(getTensor(S, ins[1]), LAMBDA input :
  Then(createFullyConnectedWeightTensor(input.s, ins[2]), LAMBDA weights :
  Then(getTensor(weights.s, ins[3]), LAMBDA bias :
  Then(getFloatActivation(S, ins[4]), LAMBDA act :
    addFusedFloatOperation(bias.s, "OP_MatMul_f", "NN_PAD_NA", bias.r, act,
                           <<input.r, weights.r>>, outs)))))

\* quant8_asym::fully_connected
quant8_asym_fully_connected(S, ins, outs) ==
  IF Len(ins) # 4
  THEN Ret(Logged(S, "Need 4 inputs for quant8::fully_connected"), FALSE)
  ELSE IF Len(outs) # 1
  THEN Ret(Logged(S, "Need 1 output for quant8::fully_connected"), FALSE)
  ELSE
  Then(getTensor(S, ins[1]), LAMBDA input :
  Then(getTensor(input.s, ins[2]), LAMBDA weights :
  Then(getTensor(weights.s, ins[3]), LAMBDA bias :
  Then(getQuantizedActivation(S, ins[4]), LAMBDA act :
  Then(getQuantizationMin(bias.s, ins[1]), LAMBDA input_min :
  Then(getQuantizationMax(input_min.s, ins[1]), LAMBDA input_max :
  Then(getQuantizationMin(input_max.s, ins[2]), LAMBDA weights_min :
  Then(getQuantizationMax(weights_min.s, ins[2]), LAMBDA weights_max :
    addFusedQuant8Operation(weights_max.s, "OP_QuantizedMatMul_8x8to32", "NN_PAD_NA",
      bias.r, act,
      <<input.r, weights.r, input_min.r, input_max.r, weights_min.r, weights_max.r>>,
      outs)))))))))

\* getOperationPrepareTable: the (operation kind, operand type) pairs that
\* have a lowering function
OperationPrepareTable ==
  ({"ADD", "AVERAGE_POOL_2D", "CONCATENATION", "CONV_2D", "DEPTHWISE_CONV_2D",
    "FULLY_CONNECTED", "L2_POOL_2D", "LOCAL_RESPONSE_NORMALIZATION", "LOGISTIC",
    "MAX_POOL_2D", "MUL", "RELU", "RELU1", "RELU6", "RESHAPE", "RESIZE_BILINEAR",
    "SOFTMAX", "TANH"} \X {"TENSOR_FLOAT32"})
  \cup
  ({"ADD", "AVERAGE_POOL_2D", "CONCATENATION", "CONV_2D", "DEPTHWISE_CONV_2D",
    "DEQUANTIZE", "FULLY_CONNECTED", "LOGISTIC", "MAX_POOL_2D", "MUL", "RELU",
    "RELU1", "RELU6", "RESHAPE", "SOFTMAX"} \X {"TENSOR_QUANT8_ASYMM"})

\* quant8_asym::depthwise_conv_2d
quant8_asym_depthwise_conv_2d(S, ins, outs) ==
  IF Len(ins) # 11
  THEN Ret(Logged(S, "Need 11 inputs for quant8_asym::depthwise_conv_2d"), FALSE)
  ELSE IF Len(outs) # 1
  THEN Ret(Logged(S, "Need 1 output for quant8_asym::depthwise_conv_2d"), FALSE)
  ELSE
  Then(getTensor(S, ins[1]), LAMBDA input :
  Then(getTensor(input.s, ins[3]), LAMBDA bias :
  Then(getQuantizedActivation(S, ins[11]), LAMBDA act :
  Then(getQuantizationMin(bias.s, ins[1]), LAMBDA input_min :
  Then(getQuantizationMax(input_min.s, ins[1]), LAMBDA input_max :
  Then(getQuantizationMin(input_max.s, ins[1]), LAMBDA filter_min :
  Then(getQuantizationMax(filter_min.s, ins[1]), LAMBDA filter_max :
  Then(createDepthwiseFilterTensor(filter_max.s, ins[2], getScalar(S, ins[10])),
       LAMBDA filter :
  Then(createShape(filter.s, 1, getScalar(S, ins[9]), getScalar(S, ins[8]), 1),
       LAMBDA stride :
  Then(getShape(S, ins[2]), LAMBDA filterShape :
  Then(getPadding(filterShape.dimensions[3], filterShape.dimensions[2],
                  getScalar(S, ins[4]), getScalar(S, ins[5]),
                  getScalar(S, ins[6]), getScalar(S, ins[7])), LAMBDA pad :
    addFusedQuant8Operation(stride.s, "OP_QuantizedDepthwiseConv2d_8x8to32", pad, bias.r,
      act, <<input.r, filter.r, input_min.r, input_max.r, filter_min.r, filter_max.r,
             stride.r>>, outs))))))))))))

\* float32::relu1: a clamp between the scalars -1.0 and 1.0
float32_relu1(S, ins, outs) ==
  IF Len(ins) # 1 THEN Ret(Logged(S, "Need 1 input for float32::relu1"), FALSE)
  ELSE IF Len(outs) # 1 THEN Ret(Logged(S, "Need 1 output for float32::relu1"), FALSE)
  ELSE Then(getTensor(S, ins[1]), LAMBDA input :
       Then(createScalar(input.s, -1), LAMBDA min :
       Then(createScalar(min.s, 1), LAMBDA max :
         addBasicOperation(max.s, "OP_Clamp_f", "NN_PAD_NA", <<input.r, min.r, max.r>>,
                           outs))))

\* float32::relu6: a relu bounded by the scalar 6.0
float32_relu6(S, ins, outs) ==
  IF Len(ins) # 1 THEN Ret(Logged(S, "Need 1 input for float32::relu6"), FALSE)
  ELSE IF Len(outs) # 1 THEN Ret(Logged(S, "Need 1 output for float32::relu6"), FALSE)
  ELSE Then(getTensor(S, ins[1]), LAMBDA input :
       Then(createScalar(input.s, 6), LAMBDA max :
         addBasicOperation(max.s, "OP_ReluX_f", "NN_PAD_NA", <<input.r, max.r>>, outs)))

\* quant8_asym::relu1
quant8_asym_relu1(S, ins, outs) ==
  IF Len(ins) # 1 THEN Ret(Logged(S, "Need 1 input for quant8_asym::relu1"), FALSE)
  ELSE IF Len(outs) # 1 THEN Ret(Logged(S, "Need 1 output for quant8_asym::relu1"), FALSE)
  ELSE Then(getTensor(S, ins[1]), LAMBDA input :
       Then(createScalar(input.s, -1), LAMBDA min :
       Then(createScalar(min.s, 1), LAMBDA max :
       Then(getQuantizationMin(max.s, ins[1]), LAMBDA input_min :
       Then(getQuantizationMax(input_min.s, ins[1]), LAMBDA input_max :
         addBasicOperation(input_max.s, "OP_QuantizedClamp_8", "NN_PAD_NA",
                           <<input.r, input_min.r, input_max.r, min.r, max.r>>, outs))))))

\* quant8_asym::relu6
quant8_asym_relu6(S, ins, outs) ==
  IF Len(ins) # 1 THEN Ret(Logged(S, "Need 1 input for quant8_asym::relu6"), FALSE)
  ELSE IF Len(outs) # 1 THEN Ret(Logged(S, "Need 1 output for quant8_asym::relu6"), FALSE)
  ELSE Then(getTensor(S, ins[1]), LAMBDA input :
       Then(createScalar(input.s, 6), LAMBDA max :
       Then(getQuantizationMin(max.s, ins[1]), LAMBDA input_min :
       Then(getQuantizationMax(input_min.s, ins[1]), LAMBDA input_max :
         addBasicOperation(input_max.s, "OP_QuantizedReluX_8", "NN_PAD_NA",
                           <<input.r, input_min.r, input_max.r, max.r>>, outs)))))

\* getOperationPrepareTable()[opTuple](operation.inputs, operation.outputs, this)
\* for the pairs the models above use
prepareOperation(S, opTuple, ins, outs) ==
  CASE opTuple = <<"ADD", "TENSOR_FLOAT32">> -> float32_addMul(S, ins, outs, "OP_Add_f", "add")
    [] opTuple = <<"MUL", "TENSOR_FLOAT32">> -> float32_addMul(S, ins, outs, "OP_Mul_f", "mul")
    [] opTuple = <<"AVERAGE_POOL_2D", "TENSOR_FLOAT32">> ->
         float32_pool(S, ins, outs, "OP_AvgPool_f", "average_pool_2d")
    [] opTuple = <<"L2_POOL_2D", "TENSOR_FLOAT32">> ->
         float32_pool(S, ins, outs, "OP_L2Pool_f", "l2_pool_2d")
    [] opTuple = <<"MAX_POOL_2D", "TENSOR_FLOAT32">> ->
         float32_pool(S, ins, outs, "OP_MaxPool_f", "max_pool_2d")
    [] opTuple = <<"CONV_2D", "TENSOR_FLOAT32">> -> float32_conv_2d(S, ins, outs)
    [] opTuple = <<"LOGISTIC", "TENSOR_FLOAT32">> ->
         float32_unary(S, ins, outs, "OP_Sigmoid_f", "logistic")
    [] opTuple = <<"RELU", "TENSOR_FLOAT32">> ->
         float32_unary(S, ins, outs, "OP_Relu_f", "relu")
    [] opTuple = <<"TANH", "TENSOR_FLOAT32">> ->
         float32_unary(S, ins, outs, "OP_Tanh_f", "tanh")
    [] opTuple = <<"ADD", "TENSOR_QUANT8_ASYMM">> ->
         quant8_asym_addMul(S, ins, outs, "OP_QuantizedAdd_8p8to32", "add")
    [] opTuple = <<"MUL", "TENSOR_QUANT8_ASYMM">> ->
         quant8_asym_addMul(S, ins, outs, "OP_QuantizedMul_8x8to32", "mul")
    [] opTuple = <<"CONV_2D", "TENSOR_QUANT8_ASYMM">> -> quant8_asym_conv_2d(S, ins, outs)
    [] opTuple = <<"DEPTHWISE_CONV_2D", "TENSOR_QUANT8_ASYMM">> ->
         quant8_asym_depthwise_conv_2d(S, ins, outs)
    [] opTuple = <<"FULLY_CONNECTED", "TENSOR_FLOAT32">> ->
         float32_fully_connected(S, ins, outs)
    [] opTuple = <<"FULLY_CONNECTED", "TENSOR_QUANT8_ASYMM">> ->
         quant8_asym_fully_connected(S, ins, outs)

\* ------------------------------- hexagon::Model: compile, reset and execute
\* Model::verifyOperations: r.all is the verdict, r.supported the vector
verifyOperations(S, model) ==
  Then(supportedOperations(S, model.operations), LAMBDA supported :
    Ret(supported.s, [all |-> \A i \in 1..Len(supported.r) : supported.r[i],
                      supported |-> supported.r]))

\* verifyOperands that accepts every dimension
verifyOperands_any(S) == Ret(S, TRUE)

\* Model::verifyOperands
verifyOperands(S) ==
  IF \E o \in 1..Len(S.ops) : \E d \in 1..Len(S.ops[o].dimensions) :
        S.ops[o].dimensions[d] = 0
  THEN Ret(Logged(S, "At least one operand with unknown dimension"), FALSE)
  ELSE Ret(S, TRUE)

\* the second loop of Model::addInputs, from mInputs[i] on
RECURSIVE updateInputsFrom(_, _, _, _)
updateInputsFrom(S, mInputs, node, i) ==
  IF i > Len(mInputs) THEN S
  ELSE updateInputsFrom(Assigned(S, mInputs[i], <<node, i - 1>>), mInputs, node, i + 1)

\* addInputs that binds the input operands before looking at the node id
addInputs_unconditional(S, model) ==
  Then([i \in 1..Len(model.inputIndexes) |->
          make_hexagon_nn_output(S.ops[model.inputIndexes[i]].dimensions,
                                 getSize(S.ops[model.inputIndexes[i]].type))], LAMBDA outs :
  Then(addOperationInternal(S, "OP_INPUT", "NN_PAD_NA", <<>>, outs), LAMBDA n :
  Then(updateInputsFrom(n.s, model.inputIndexes, n.r, 1), LAMBDA bound :
    IF n.r = 0
    THEN Ret(Logged(bound, "Error adding input operation"), FALSE)
    ELSE Ret(bound, TRUE))))

\* Model::addInputs: one OP_INPUT node whose outputs are the model inputs
addInputs(S, model) ==
  Then([i \in 1..Len(model.inputIndexes) |->
          make_hexagon_nn_output(S.ops[model.inputIndexes[i]].dimensions,
                                 getSize(S.ops[model.inputIndexes[i]].type))], LAMBDA outs :
  Then(addOperationInternal(S, "OP_INPUT", "NN_PAD_NA", <<>>, outs), LAMBDA n :
    IF n.r = 0
    THEN Ret(Logged(n.s, "Error adding input operation"), FALSE)
    ELSE Ret(updateInputsFrom(n.s, model.inputIndexes, n.r, 1), TRUE)))

\* Model::addOperations, from operation i on
RECURSIVE addOperationsFrom(_, _, _)
addOperationsFrom(S, model, i) ==
  IF i > Len(model.operations) THEN Ret(S, TRUE)
  ELSE Then(model.operations[i], LAMBDA operation :
       Then(<<operation.type, S.ops[operation.inputs[1]].type>>, LAMBDA opTuple :
         IF opTuple \notin OperationPrepareTable
         THEN Ret(Logged(S, "Operation not found"), FALSE)
         ELSE Then(prepareOperation(S, opTuple, operation.inputs, operation.outputs),
                   LAMBDA success :
                IF ~success.r
                THEN Ret(Logged(success.s, "error adding operation"), FALSE)
                ELSE addOperationsFrom(success.s, model, i + 1))))

\* addOperations that goes on with the second operation after a failure
addOperations_persistent(S, model) ==
  Then(addOperationsFrom(S, model, 1), LAMBDA first :
    IF first.r THEN first
    ELSE Then(addOperationsFrom(first.s, model, 2), LAMBDA rest : Ret(rest.s, FALSE)))

\* Model::addOperations
addOperations(S, model) == addOperationsFrom(S, model, 1)

\* the loop of Model::addOutputs: <<>> once an output operand has no handle
RECURSIVE outputHandles(_, _, _)
outputHandles(S, mOutputs, i) ==
  IF i > Len(mOutputs) THEN << <<>> >>
  ELSE IF S.ops[mOutputs[i]].hexagon_input = NoInput THEN <<>>
  ELSE Then(outputHandles(S, mOutputs, i + 1), LAMBDA rest :
         IF rest = <<>> THEN <<>>
         ELSE << <<S.ops[mOutputs[i]].hexagon_input>> \o rest[1] >>)

\* addOutputs that leaves out the output operands without a handle
addOutputs_skipping(S, model) ==
  Then(SelectSeq([k \in 1..Len(model.outputIndexes) |->
                    S.ops[model.outputIndexes[k]].hexagon_input],
                 LAMBDA h : h # NoInput), LAMBDA ins :
    Then(addBasicOperation(S, "OP_OUTPUT", "NN_PAD_NA", ins, <<>>), LAMBDA success :
           IF ~success.r
           THEN Ret(Logged(success.s, "Error adding output operation"), FALSE)
           ELSE success))

\* Model::addOutputs: one OP_OUTPUT node whose inputs are the model outputs
addOutputs(S, model) ==
  Then(outputHandles(S, model.outputIndexes, 1), LAMBDA ins :
    IF ins = <<>>
    THEN Ret(Logged(S, "output operand has not been registered"), FALSE)
    ELSE Then(addBasicOperation(S, "OP_OUTPUT", "NN_PAD_NA", ins[1], <<>>), LAMBDA success :
           IF ~success.r
           THEN Ret(Logged(success.s, "Error adding output operation"), FALSE)
           ELSE success))

\* resetModel that also restarts the node counter with the new session
resetModel_restart(S) ==
  Then([S EXCEPT
          !.compiled = FALSE,
          !.nc = 0,
          !.ops = [o \in 1..Len(S.ops) |->
                     [S.ops[o] EXCEPT !.hexagon_input = NoInput,
                                      !.hexagon_output = NoOutput]]], LAMBDA cleared :
  Then(IF cleared.gid # NoGraph
       THEN [cleared EXCEPT !.calls = Append(@, PlainCall("teardown", cleared.gid, TRUE))]
       ELSE cleared, LAMBDA torn :
    [torn EXCEPT
       !.gid = torn.nextId,
       !.nextId = @ + 1,
       !.calls = torn.calls \o << PlainCall("init", torn.nextId, TRUE),
                                  DebugCall(torn.nextId) >>]))

\* Model::resetModel
resetModel(S) ==
  Then([S EXCEPT
          !.compiled = FALSE,
          !.ops = [o \in 1..Len(S.ops) |->
                     [S.ops[o] EXCEPT !.hexagon_input = NoInput,
                                      !.hexagon_output = NoOutput]]], LAMBDA cleared :
  Then(IF cleared.gid # NoGraph
       THEN [cleared EXCEPT !.calls = Append(@, PlainCall("teardown", cleared.gid, TRUE))]
       ELSE cleared, LAMBDA torn :
    [torn EXCEPT
       !.gid = torn.nextId,
       !.nextId = @ + 1,
       !.calls = torn.calls \o << PlainCall("init", torn.nextId, TRUE),
                                  DebugCall(torn.nextId) >>]))

\* Model::compile: r.ok is the value returned; r.verified and r.supported
\* record what verifyOperations found
Compiled(S, ok, v) == Ret(S, [ok |-> ok, verified |-> v.all, supported |-> v.supported])

compile(S, model) ==
  Then(verifyOperations(S, model), LAMBDA v :
  Then(IF v.r.all THEN verifyOperands(v.s) ELSE Ret(v.s, FALSE), LAMBDA d :
    IF ~d.r THEN Compiled(d.s, FALSE, v.r) ELSE
  Then(addInputs(d.s, model), LAMBDA a :
  Then(IF a.r THEN addOperations(a.s, model) ELSE a, LAMBDA b :
  Then(IF b.r THEN addOutputs(b.s, model) ELSE b, LAMBDA c :
    IF ~c.r THEN Compiled(resetModel(c.s), FALSE, v.r) ELSE
  Then(IF c.s.prepOk THEN 0 ELSE -1, LAMBDA err :
    Compiled([c.s EXCEPT !.calls = Append(@, PlainCall("prepare", c.s.gid, err = 0))],
             err = 0, v.r)))))))

\* the dimensions updateOperand leaves in an operand: the request's, when the
\* request argument carries any
updateOperand(S, operand, dimensions) ==
  IF Len(dimensions) > 0 THEN [S EXCEPT !.ops[operand].dimensions = dimensions] ELSE S

\* the two loops of Model::execute that rebind the request's arguments
RECURSIVE updateOperandsFrom(_, _, _, _)
updateOperandsFrom(S, indexes, arguments, i) ==
  IF i > Len(arguments) THEN S
  ELSE updateOperandsFrom(updateOperand(S, indexes[i], arguments[i]), indexes, arguments, i + 1)

\* convertToTensordef: the aligned dimensions handed to the accelerator
convertToTensordef(S, operand) == getAlignedDimensions(S.ops[operand].dimensions, 4)

\* Model::execute: err is the status the runtime's execute_new gives back
execute(S, model, request, err) ==
  Then(updateOperandsFrom(S, model.inputIndexes, request.inputs, 1), LAMBDA i :
  Then(updateOperandsFrom(i, model.outputIndexes, request.outputs, 1), LAMBDA o :
  Then([k \in 1..Len(request.inputs) |-> convertToTensordef(o, model.inputIndexes[k])],
       LAMBDA inputs :
  Then([k \in 1..Len(request.outputs) |-> convertToTensordef(o, model.outputIndexes[k])],
       LAMBDA outputs :
    Ret([o EXCEPT !.calls = Append(@, Call("execute_new", o.gid, 0, "", "", inputs, outputs,
                                           <<>>, <<>>, err = 0))],
        err = 0)))))

\* PreparedModel::asyncExecute: the status handed to the callback
asyncExecute(S, model, request, err) ==
  Then(execute(S, model, request, err), LAMBDA e :
    Ret(e.s, IF e.r = TRUE THEN "NONE" ELSE "GENERAL_FAILURE"))

\* ------------------------------------------------------------ the requests
\* nn::validateRequest (NN framework library, outside this repository): an
\* argument without dimensions needs a fully specified operand; one with
\* dimensions must agree with the operand wherever the operand is specified
validArgument(operand, dimensions) ==
  IF Len(dimensions) = 0
  THEN \A d \in 1..Len(operand.dimensions) : operand.dimensions[d] # 0
  ELSE /\ Len(dimensions) = Len(operand.dimensions)
       /\ \A d \in 1..Len(dimensions) :
            /\ dimensions[d] # 0
            /\ operand.dimensions[d] \in {0, dimensions[d]}

validateRequest(request, model) ==
  /\ Len(request.inputs) = Len(model.inputIndexes)
  /\ Len(request.outputs) = Len(model.outputIndexes)
  /\ \A k \in 1..Len(request.inputs) :
       validArgument(model.operands[model.inputIndexes[k]], request.inputs[k])
  /\ \A k \in 1..Len(request.outputs) :
       validArgument(model.operands[model.outputIndexes[k]], request.outputs[k])

\* the declared dimensions with every unknown extent given as 2
FillDims(dims) == [d \in 1..Len(dims) |-> IF dims[d] = 0 THEN 2 ELSE dims[d]]

\* the declared dimensions with every unknown extent given as n
FillDimsWith(dims, n) == [d \in 1..Len(dims) |-> IF dims[d] = 0 THEN n ELSE dims[d]]

\* the requests tried on a model: one that leaves every argument's dimensions
\* out, one that states them all
Requests(model) ==
  { [inputs |-> [k \in 1..Len(model.inputIndexes) |-> <<>>],
     outputs |-> [k \in 1..Len(model.outputIndexes) |-> <<>>]],
    [inputs |-> [k \in 1..Len(model.inputIndexes) |->
                   FillDims(model.operands[model.inputIndexes[k]].dimensions)],
     outputs |-> [k \in 1..Len(model.outputIndexes) |->
                    FillDims(model.operands[model.outputIndexes[k]].dimensions)]] }

\* static getSize(const OperandInfo&): the byte length of the operand's data
getSizeOfOperand(operand) == Product(operand.dimensions) * getSize(operand.type)

\* buffer and length of an operand no request was bound to yet
Unbound == [buffer |-> <<>>, length |-> 0]

\* pool.buffer + offset of a request argument: argument `slot` of the request
\* with memory pool `pool`
BufferOf(pool, slot) == <<pool, slot>>

\* the second half of updateOperand: operand->buffer = pool.buffer + offset and
\* operand->length = getSize(*operand)
bindOperand(bufs, ops, operand, pool, slot) ==
  [bufs EXCEPT ![operand] = [buffer |-> BufferOf(pool, slot),
                             length |-> getSizeOfOperand(ops[operand])]]

\* the buffers the two loops of Model::execute leave bound: argument i of the
\* list `indexes`, whose first argument is slot base + 1 of the pool
RECURSIVE bindOperandsFrom(_, _, _, _, _, _)
bindOperandsFrom(bufs, ops, indexes, pool, base, i) ==
  IF i > Len(indexes) THEN bufs
  ELSE bindOperandsFrom(bindOperand(bufs, ops, indexes[i], pool, base + i),
                        ops, indexes, pool, base, i + 1)

\* the storage of the further Model objects, and how many sessions they may
\* obtain from init()
Objects == {"a", "b", "c"}

MaxSessions == 3

\* storage in which no Model has been constructed
NoModel == [state |-> "none", mGraphId |-> NoGraph]

\* ---------------------------------------------------------------- the state
VARIABLES
  model,       \* the NeuralnetworksModel the hexagon::Model was built from
  mOperands,   \* Model::mOperands
  mNodeCount,  \* Model::mNodeCount
  mGraphId,    \* Model::mGraphId
  mCompiled,   \* Model::mCompiled
  nextId,      \* the id the runtime's next init() returns
  graph,       \* what the runtime holds for session mGraphId:
               \* "empty", "built" (all nodes appended) or "prepared"
  used,        \* the node ids of all append calls made so far, in order
  nCompiles,   \* how many times compile() has run
  compileOk,   \* what the latest compile() returned
  last,        \* the latest handler: its result, accelerator calls, log
  mBuffers,    \* OperandInfo::buffer and ::length of every operand
  object,      \* the PreparedModel: "alive", "destroyed", or the process "crashed"
  requests,    \* the execute() calls made so far, each with its worker thread
  notified,    \* the IExecutionCallback::notify calls made so far, per request
  models,      \* further hexagon::Model objects: whether each exists, and its mGraphId
  teardowns    \* the ids Controller::teardown was called with for them, in order

vars == <<model, mOperands, mNodeCount, mGraphId, mCompiled, nextId, graph, used,
          nCompiles, compileOk, last, mBuffers, object, requests, notified, models,
          teardowns>>

\* what the constructors, the assignment and the destructor of Model work on
lifeVars == <<models, teardowns>>

\* what the worker threads of PreparedModel::execute work on
threadVars == <<mBuffers, object, requests, notified>>

\* the handler state a handler starts from
Running(rej, prepOk) ==
  [ops |-> mOperands, nc |-> mNodeCount, gid |-> mGraphId, compiled |-> mCompiled,
   calls |-> <<>>, na |-> 0, rej |-> rej, prepOk |-> prepOk, nextId |-> nextId,
   log |-> <<>>, writes |-> <<>>]

\* what a handler leaves in the object
Left(S) ==
  /\ mOperands' = S.ops
  /\ mNodeCount' = S.nc
  /\ mGraphId' = S.gid
  /\ mCompiled' = S.compiled
  /\ nextId' = S.nextId

Outcome(op, S, ok, verified, supported, status) ==
  [op |-> op, ok |-> ok, verified |-> verified, supported |-> supported,
   status |-> status, calls |-> S.calls, log |-> S.log, writes |-> S.writes,
   before |-> graph, session |-> mGraphId, after |-> last.op]

Appends(calls) == SelectSeq(calls, LAMBDA c : c.fn \in {"append_node", "append_const_node"})

NodeIds(calls) == Then(Appends(calls), LAMBDA a : [k \in 1..Len(a) |-> a[k].node])

Called(calls, fn) == \E k \in 1..Len(calls) : calls[k].fn = fn

\* the runtime's view of the session after a compile()
GraphAfter(calls) ==
  IF Called(calls, "init") THEN "empty"
  ELSE IF \E k \in 1..Len(calls) : calls[k].fn = "prepare" /\ calls[k].ok THEN "prepared"
  ELSE IF Called(calls, "prepare") THEN "built"
  ELSE graph

\* Model::Model(model): mNodeCount(0), mCompiled(false), a session from init()
Constructed ==
  /\ mOperands = getOperandsInfo(model)
  /\ mNodeCount = 0
  /\ mCompiled = FALSE
  /\ mGraphId = 1
  /\ nextId = 2
  /\ graph = "empty"
  /\ used = <<>>
  /\ nCompiles = 0
  /\ compileOk = FALSE
  /\ last = [op |-> "Model", ok |-> TRUE, verified |-> FALSE, supported |-> <<>>,
             status |-> "", calls |-> << PlainCall("init", 1, TRUE),
                                         DebugCall(1) >>,
             log |-> <<>>, writes |-> <<>>, before |-> "empty", session |-> 1,
             after |-> ""]
  /\ mBuffers = [o \in 1..Len(model.operands) |-> Unbound]
  /\ object = "alive"
  /\ requests = <<>>
  /\ notified = <<>>
  /\ models = [x \in Objects |-> NoModel]
  /\ teardowns = <<>>

Init == model \in SeqToSet(Models) /\ Constructed

\* Model::compile(), with the runtime rejecting append call number rej (none
\* when 0) and accepting or refusing prepare
Compile ==
  /\ nCompiles < MaxCompiles
  /\ \E rej \in 0..MaxCalls, prepOk \in BOOLEAN :
       Then(compile(Running(rej, prepOk), model), LAMBDA c :
         /\ Left(c.s)
         /\ last' = Outcome("compile", c.s, c.r.ok, c.r.verified, c.r.supported, "")
         /\ used' = used \o NodeIds(c.s.calls)
         /\ graph' = GraphAfter(c.s.calls)
         /\ nCompiles' = nCompiles + 1
         /\ compileOk' = c.r.ok
         /\ UNCHANGED <<lifeVars, model, threadVars>>)

\* PreparedModel::execute(request, callback) with the thread it starts run to
\* its end; a PreparedModel exists once prepareModel has called compile()
Execute ==
  /\ nCompiles >= 1
  /\ \E request \in Requests(model), err \in {0, -1} :
       IF ~validateRequest(request, model)
       THEN /\ last' = Outcome("execute", Running(0, TRUE), FALSE, FALSE, <<>>,
                               "INVALID_ARGUMENT")
            /\ UNCHANGED <<lifeVars, model, mOperands, mNodeCount, mGraphId, mCompiled, nextId,
                           graph, used, nCompiles, compileOk, threadVars>>
       ELSE Then(asyncExecute(Running(0, TRUE), model, request, err), LAMBDA e :
              /\ Left(e.s)
              /\ last' = Outcome("execute", e.s, e.r = "NONE", FALSE, <<>>, e.r)
              /\ mBuffers' = bindOperandsFrom(
                               bindOperandsFrom(mBuffers, e.s.ops, model.inputIndexes,
                                                0, 0, 1),
                               e.s.ops, model.outputIndexes, 0,
                               Len(model.inputIndexes), 1)
              /\ UNCHANGED <<lifeVars, model, graph, used, nCompiles, compileOk, object,
                             requests, notified>>)

\* Model::supportedOperations()
SupportedOperations ==
  /\ UNCHANGED <<lifeVars, model, graph, nCompiles, compileOk, threadVars>>
  /\ Then(supportedOperations(Running(0, TRUE), model.operations), LAMBDA q :
       /\ Left(q.s)
       /\ last' = Outcome("supportedOperations", q.s, TRUE, FALSE, q.r, "")
       /\ used' = used \o NodeIds(q.s.calls))

Next == Compile \/ Execute \/ SupportedOperations

\* Model::supportedOperations() of a build with the older
\* HexagonOperationsCheck (part_003)
SupportedOperationsOlder ==
  /\ UNCHANGED <<lifeVars, model, graph, nCompiles, compileOk, threadVars>>
  /\ Then(supportedFromOlder(Running(0, TRUE), model.operations, 1), LAMBDA q :
       /\ Left(q.s)
       /\ last' = Outcome("supportedOperations", q.s, TRUE, FALSE, q.r, "older")
       /\ used' = used \o NodeIds(q.s.calls))

LoweringNext == Next \/ SupportedOperationsOlder

\* a Model constructed from one of the models of the second catalogue
LoweringInit == model \in SeqToSet(LoweringModels) /\ Constructed

Lowering == LoweringInit /\ [][LoweringNext]_vars

Spec == Init /\ [][Next]_vars

\* a newly constructed Model about to run a handler the runtime accepts in full
Fresh(m) ==
  [ops |-> getOperandsInfo(m), nc |-> 0, gid |-> 1, compiled |-> FALSE, calls |-> <<>>,
   na |-> 0, rej |-> 0, prepOk |-> TRUE, nextId |-> 2, log |-> <<>>, writes |-> <<>>]

\* ------------------------------------- the worker threads of a PreparedModel
\* PreparedModel::execute starts one detached thread per accepted request; the
\* threads share mHexagonModel and take no lock (mMutex is never locked), so
\* their statements interleave.  Each entry of `requests` is one execute()
\* call: what it returned and where its thread stands:
\*   at     "update" / "convert": in the loops of Model::execute, before
\*          updateOperand resp. convertToTensordef of argument k of `phase`
\*          "running": inside execute_new; "done": Model::execute has returned
\*          `ok` and the callback was notified
\*          "rejected": execute() started no thread
\*   valid             what nn::validateRequest says of the request
\*   inputs, outputs   the thread's local tensordef vectors
\*   ncalls            the execute_new calls the thread has made
\*   err, ok           what execute_new resp. Model::execute returned

\* the requests tried on a prepared model: those of Requests and one that
\* states every unknown extent as 3
ThreadRequests(m) ==
  Requests(m) \cup
  { [inputs |-> [k \in 1..Len(m.inputIndexes) |->
                   FillDimsWith(m.operands[m.inputIndexes[k]].dimensions, 3)],
     outputs |-> [k \in 1..Len(m.outputIndexes) |->
                    FillDimsWith(m.operands[m.outputIndexes[k]].dimensions, 3)]] }

\* the models whose prepared form the threads run on
ThreadModels == {MZero, MPoolF}

\* convertToTensordef(operandInfo): dimensions, data pointer and length
tensordefOf(ops, bufs, operand) ==
  [dimensions |-> getAlignedDimensions(ops[operand].dimensions, 4),
   data |-> bufs[operand].buffer,
   dataLen |-> bufs[operand].length]

\* the argument list and operand list a thread's loop `phase` runs over, and
\* the slot of the pool before its first argument
ArgsOf(r, phase) == IF phase = "in" THEN r.request.inputs ELSE r.request.outputs

IndexesOf(phase) == IF phase = "in" THEN model.inputIndexes ELSE model.outputIndexes

BaseOf(phase) == IF phase = "in" THEN 0 ELSE Len(model.inputIndexes)

\* where a thread goes after argument k of `phase`
After(r, phase, k) ==
  IF k < Len(ArgsOf(r, phase)) THEN [at |-> "update", phase |-> phase, k |-> k + 1]
  ELSE IF phase = "in" /\ Len(r.request.outputs) > 0
       THEN [at |-> "update", phase |-> "out", k |-> 1]
       ELSE [at |-> "running", phase |-> "out", k |-> 0]

\* a thread started by execute(), at the head of Model::execute (the models
\* run here have an input)
Started(request) ==
  [request |-> request, callback |-> "callback", valid |-> TRUE, ret |-> "NONE",
   at |-> "update", phase |-> "in", k |-> 1,
   inputs |-> <<>>, outputs |-> <<>>, ncalls |-> 0, err |-> 0, ok |-> FALSE]

\* an execute() call that returned INVALID_ARGUMENT: its request is dropped
NoRequest == [inputs |-> <<>>, outputs |-> <<>>]

Refused(callback, valid) ==
  [request |-> NoRequest, callback |-> callback, valid |-> valid,
   ret |-> "INVALID_ARGUMENT", at |-> "rejected", phase |-> "in", k |-> 0,
   inputs |-> <<>>, outputs |-> <<>>, ncalls |-> 0, err |-> 0, ok |-> FALSE]

\* callback->notify(status), made by execute()'s caller thread or by the worker
Notification(status, by) == [status |-> status, by |-> by]

\* the state Device::prepareModel leaves: a Model constructed from m, compiled
\* once (the result is ignored) and moved into the PreparedModel
ThreadsInit ==
  /\ model \in ThreadModels
  /\ Then(compile(Fresh(model), model), LAMBDA c :
       /\ mOperands = c.s.ops
       /\ mNodeCount = c.s.nc
       /\ mGraphId = c.s.gid
       /\ mCompiled = c.s.compiled
       /\ nextId = c.s.nextId
       /\ used = NodeIds(c.s.calls)
       /\ graph = IF Called(c.s.calls, "init") \/ ~Called(c.s.calls, "prepare")
                  THEN "empty"
                  ELSE IF c.r.ok THEN "prepared" ELSE "built"
       /\ compileOk = c.r.ok
       /\ last = [op |-> "compile", ok |-> c.r.ok, verified |-> c.r.verified,
                  supported |-> c.r.supported, status |-> "", calls |-> c.s.calls,
                  log |-> c.s.log, writes |-> c.s.writes, before |-> "empty",
                  session |-> 1, after |-> "Model"])
  /\ nCompiles = 1
  /\ mBuffers = [o \in 1..Len(model.operands) |-> Unbound]
  /\ object = "alive"
  /\ requests = <<>>
  /\ notified = <<>>
  /\ models = [x \in Objects |-> NoModel]
  /\ teardowns = <<>>

modelVars == <<lifeVars, model, mNodeCount, mGraphId, mCompiled, nextId, used, nCompiles,
               compileOk, last>>

\* execute() that starts the thread without validating the request
Request_unchecked ==
  /\ object = "alive"
  /\ Len(requests) < MaxRequests
  /\ \E request \in ThreadRequests(model), callback \in {"null", "callback"} :
       IF callback = "null"
       THEN /\ requests' = Append(requests,
                                   Refused(callback, validateRequest(request, model)))
            /\ notified' = Append(notified, <<>>)
       ELSE /\ requests' = Append(requests,
                      [Started(request) EXCEPT !.valid = validateRequest(request, model)])
            /\ notified' = Append(notified, <<>>)
  /\ UNCHANGED <<modelVars, mOperands, mBuffers, graph, object>>

\* PreparedModel::execute(request, callback)
Request ==
  /\ object = "alive"
  /\ Len(requests) < MaxRequests
  /\ \E request \in ThreadRequests(model), callback \in {"null", "callback"} :
       IF callback = "null"
       THEN /\ requests' = Append(requests,
                                   Refused(callback, validateRequest(request, model)))
            /\ notified' = Append(notified, <<>>)
       ELSE IF ~validateRequest(request, model)
       THEN /\ requests' = Append(requests, Refused(callback, FALSE))
            /\ notified' = Append(notified, <<Notification("INVALID_ARGUMENT", "caller")>>)
       ELSE /\ requests' = Append(requests, Started(request))
            /\ notified' = Append(notified, <<>>)
  /\ UNCHANGED <<modelVars, mOperands, mBuffers, graph, object>>

\* a thread's updateOperand(request argument k, pools, &operandInfo)
UpdateOperand ==
  /\ object # "crashed"
  /\ \E w \in 1..Len(requests) :
       /\ requests[w].at = "update"
       /\ Then(requests[w], LAMBDA r :
          Then(IndexesOf(r.phase)[r.k], LAMBDA operand :
          Then(updateOperand([ops |-> mOperands], operand, ArgsOf(r, r.phase)[r.k]).ops,
               LAMBDA ops :
            /\ mOperands' = ops
            /\ mBuffers' = bindOperand(mBuffers, ops, operand, w, BaseOf(r.phase) + r.k)
            /\ requests' = [requests EXCEPT ![w].at = "convert"])))
  /\ UNCHANGED <<modelVars, graph, object, notified>>

\* a thread's inputs.push_back(convertToTensordef(operandInfo)), resp. outputs;
\* after the last argument the thread enters
\* Controller::execute_new(mGraphId, inputs, outputs)
ConvertOperand ==
  /\ object # "crashed"
  /\ \E w \in 1..Len(requests) :
       /\ requests[w].at = "convert"
       /\ Then(requests[w], LAMBDA r :
          Then(tensordefOf(mOperands, mBuffers, IndexesOf(r.phase)[r.k]), LAMBDA def :
          Then(After(r, r.phase, r.k), LAMBDA next :
            requests' = [requests EXCEPT
               ![w] = [r EXCEPT !.at = next.at, !.phase = next.phase, !.k = next.k,
                                !.ncalls = IF next.at = "running" THEN @ + 1 ELSE @,
                                !.inputs = IF r.phase = "in" THEN Append(@, def) ELSE @,
                                !.outputs = IF r.phase = "out" THEN Append(@, def) ELSE @]])))
  /\ UNCHANGED <<modelVars, mOperands, mBuffers, graph, object, notified>>

\* asyncExecute that notifies the callback of a success only
ReturnExecute_silent ==
  /\ object # "crashed"
  /\ \E w \in 1..Len(requests), err \in {0, -1} :
       /\ requests[w].at = "running"
       /\ Then(err = 0, LAMBDA ok :
            /\ requests' = [requests EXCEPT ![w].at = "done", ![w].err = err,
                                             ![w].ok = ok]
            /\ notified' = [notified EXCEPT ![w] =
                 IF ok THEN Append(@, Notification("NONE", "worker")) ELSE @])
  /\ UNCHANGED <<modelVars, mOperands, mBuffers, graph, object>>

\* Model::execute that returns true whatever execute_new returned
ReturnExecute_optimistic ==
  /\ object # "crashed"
  /\ \E w \in 1..Len(requests), err \in {0, -1} :
       /\ requests[w].at = "running"
       /\ Then(TRUE, LAMBDA ok :
            /\ requests' = [requests EXCEPT ![w].at = "done", ![w].err = err,
                                             ![w].ok = ok]
            /\ notified' = [notified EXCEPT ![w] = Append(@,
                 Notification(IF ok = TRUE THEN "NONE" ELSE "GENERAL_FAILURE",
                              "worker"))])
  /\ UNCHANGED <<modelVars, mOperands, mBuffers, graph, object>>

\* execute_new returns err to the thread, Model::execute returns err == 0 and
\* PreparedModel::asyncExecute notifies the callback
ReturnExecute ==
  /\ object # "crashed"
  /\ \E w \in 1..Len(requests), err \in {0, -1} :
       /\ requests[w].at = "running"
       /\ Then(err = 0, LAMBDA ok :
            /\ requests' = [requests EXCEPT ![w].at = "done", ![w].err = err,
                                             ![w].ok = ok]
            /\ notified' = [notified EXCEPT ![w] = Append(@,
                 Notification(IF ok = TRUE THEN "NONE" ELSE "GENERAL_FAILURE",
                              "worker"))])
  /\ UNCHANGED <<modelVars, mOperands, mBuffers, graph, object>>

\* the threads that have not come to their end
Unfinished == {w \in 1..Len(requests) : requests[w].at \notin {"done", "rejected"}}

\* PreparedModel::~PreparedModel, which runs Model::~Model: teardown(mGraphId).
\* The client may drop the prepared model at any time; the threads hold `this`
\* as a plain pointer.
Destroy ==
  /\ object = "alive"
  /\ mGraphId # NoGraph
  /\ object' = "destroyed"
  /\ graph' = "torn down"
  /\ UNCHANGED <<modelVars, mOperands, mBuffers, requests, notified>>

\* a thread that uses the destroyed object may go on as if it were there (the
\* steps above) or bring the process down
Crash ==
  /\ object = "destroyed"
  /\ Unfinished # {}
  /\ object' = "crashed"
  /\ UNCHANGED <<modelVars, mOperands, mBuffers, graph, requests, notified>>

ThreadsNext ==
  \/ Request \/ UpdateOperand \/ ConvertOperand \/ ReturnExecute
  \/ Destroy \/ Crash

Threads == ThreadsInit /\ [][ThreadsNext]_vars

\* ------------------------------------------ the functions taken one by one
\* The functions of Model and of the utilities applied to arguments drawn
\* from small sets, on a newly constructed Model or after earlier
\* applications; `last` records the application: the function, its arguments,
\* its result and the accelerator calls and log messages it made.
Applied(fn, args, result, S) ==
  [op |-> fn, args |-> args, result |-> result, calls |-> S.calls, log |-> S.log]

\* the operands of the model that are quantized tensors
QuantizedOperands ==
  {o \in 1..Len(model.operands) : model.operands[o].type = "TENSOR_QUANT8_ASYMM"}

\* the raw quantized values tried (256 is the one quant8_asym::softmax passes)
QuantValues == {0, 2, 3, 4, 255, 256}

\* Model::createQuantizationValue(operand, quant_value)
CreateQuantizationValue ==
  /\ mNodeCount < MaxConstants
  /\ \E operand \in QuantizedOperands, quant_value \in QuantValues :
       Then(createQuantizationValue(Running(0, TRUE), operand, quant_value), LAMBDA v :
         /\ Left(v.s)
         /\ used' = used \o NodeIds(v.s.calls)
         /\ last' = Applied("createQuantizationValue", <<operand, quant_value>>, v.r, v.s))
  /\ UNCHANGED <<lifeVars, model, graph, nCompiles, compileOk, threadVars>>

\* Model::getQuantizationMin(operand) and Model::getQuantizationMax(operand)
GetQuantizationRange ==
  /\ mNodeCount < MaxConstants
  /\ \E operand \in QuantizedOperands, end \in {"getQuantizationMin", "getQuantizationMax"} :
       Then(IF end = "getQuantizationMin"
            THEN getQuantizationMin(Running(0, TRUE), operand)
            ELSE getQuantizationMax(Running(0, TRUE), operand), LAMBDA v :
         /\ Left(v.s)
         /\ used' = used \o NodeIds(v.s.calls)
         /\ last' = Applied(end, <<operand>>, v.r, v.s))
  /\ UNCHANGED <<lifeVars, model, graph, nCompiles, compileOk, threadVars>>

\* the utilities that read no state are applied once, before any other function
Stateless == last.op = "Model"

\* the dimension vectors and alignments tried
DimsTried == UNION {[1..n -> {2, 3}] : n \in 0..MaxRank}

\* getAlignedDimensions(dims, N)
GetAlignedDimensions ==
  /\ Stateless
  /\ \E dims \in DimsTried, N \in 0..MaxRank :
       last' = Applied("getAlignedDimensions", <<dims, N>>, getAlignedDimensions(dims, N),
                       Running(0, TRUE))
  /\ UNCHANGED <<lifeVars, model, mOperands, mNodeCount, mGraphId, mCompiled, nextId, graph, used,
                 nCompiles, compileOk, threadVars>>

\* getPadding(filterWidth, filterHeight, paddingLeft, paddingRight,
\* paddingTop, paddingBottom)
GetPadding ==
  /\ Stateless
  /\ \E filterWidth, filterHeight \in {1, 3}, paddingLeft, paddingRight \in 0..MaxPadding,
        paddingTop, paddingBottom \in 0..MaxPadding :
       last' = Applied("getPadding",
                       <<filterWidth, filterHeight, paddingLeft, paddingRight,
                         paddingTop, paddingBottom>>,
                       getPadding(filterWidth, filterHeight, paddingLeft, paddingRight,
                                  paddingTop, paddingBottom),
                       Running(0, TRUE))
  /\ UNCHANGED <<lifeVars, model, mOperands, mNodeCount, mGraphId, mCompiled, nextId, graph, used,
                 nCompiles, compileOk, threadVars>>

\* the uint32_t offsets and lengths tried: small ones and ones near 2^32
U32Tried == {<<0, 0>>, <<0, 1>>, <<0, 4>>, <<0, 8>>, <<0, 9>>, <<1, 0>>,
             <<65535, 65532>>, <<65535, 65535>>}

\* the size in bytes of the inline data block and of the memory pool
RegionSize == 8

\* getData(operand, model.operandValues, pools), as getOperandsInfo calls it
GetData ==
  /\ Stateless
  /\ \E lifetime \in {"TEMPORARY_VARIABLE", "MODEL_INPUT", "MODEL_OUTPUT",
                      "CONSTANT_COPY", "CONSTANT_REFERENCE"},
        offset \in U32Tried, length \in U32Tried :
       Then([lifetime |-> lifetime,
             location |-> [poolIndex |-> 0, offset |-> offset, length |-> length]],
            LAMBDA operand :
         last' = Applied("getData", <<operand>>, getData(operand, RegionSize),
                         Running(0, TRUE)))
  /\ UNCHANGED <<lifeVars, model, mOperands, mNodeCount, mGraphId, mCompiled, nextId, graph, used,
                 nCompiles, compileOk, threadVars>>

\* the activation selectors tried: NONE, RELU, RELU1, RELU6 and a value the
\* FusedActivationFunc enumeration lacks
Selectors == {ActNONE, ActRELU, ActRELU1, ActRELU6, ActRELU6 + 1}

\* Model::addFloatOperationWithActivation and
\* Model::addQuant8OperationWithActivation as the max-pool lowering calls
\* them, on the model's output operand, with the activation opcode its
\* selector resolves to
AddOperationWithActivation ==
  /\ Stateless
  /\ \E act \in Selectors, input \in {<<1, 0>>, NoInput}, rej \in 0..MaxCalls :
       Then(model.outputIndexes[1], LAMBDA output :
       Then(model.operands[output].type = "TENSOR_QUANT8_ASYMM", LAMBDA quantized :
       Then(IF quantized
            THEN addQuant8OperationWithActivation(
                   Running(rej, TRUE), "OP_QuantizedMaxPool_8", "NN_PAD_VALID",
                   getQuantizedActivationFunction(act), <<input>>, <<output>>)
            ELSE addFloatOperationWithActivation(
                   Running(rej, TRUE), "OP_MaxPool_f", "NN_PAD_VALID",
                   getFloatActivationFunction(act), <<input>>, <<output>>), LAMBDA v :
         /\ Left(v.s)
         /\ used' = used \o NodeIds(v.s.calls)
         /\ last' = Applied(IF quantized THEN "addQuant8OperationWithActivation"
                            ELSE "addFloatOperationWithActivation",
                            <<act, input, output>>, v.r, v.s))))
  /\ UNCHANGED <<lifeVars, model, graph, nCompiles, compileOk, threadVars>>

\* the standalone RELU1 or RELU6 lowering of the operand's representation
standalone(S, act, quantized, ins, outs) ==
  CASE act = ActRELU1 /\ ~quantized -> float32_relu1(S, ins, outs)
    [] act = ActRELU6 /\ ~quantized -> float32_relu6(S, ins, outs)
    [] act = ActRELU1 /\ quantized -> quant8_asym_relu1(S, ins, outs)
    [] act = ActRELU6 /\ quantized -> quant8_asym_relu6(S, ins, outs)

\* float32::relu1, float32::relu6, quant8_asym::relu1 and quant8_asym::relu6
\* from the model's first input to its output
Relu ==
  /\ Stateless
  /\ \E act \in {ActRELU1, ActRELU6}, rej \in 0..MaxCalls :
       Then(model.operands[model.outputIndexes[1]].type = "TENSOR_QUANT8_ASYMM",
            LAMBDA quantized :
       Then(standalone(Running(rej, TRUE), act, quantized, <<model.inputIndexes[1]>>,
                       <<model.outputIndexes[1]>>), LAMBDA v :
         /\ Left(v.s)
         /\ used' = used \o NodeIds(v.s.calls)
         /\ last' = Applied(IF act = ActRELU1 THEN "relu1" ELSE "relu6",
                            <<act, model.inputIndexes[1], model.outputIndexes[1]>>,
                            v.r, v.s)))
  /\ UNCHANGED <<lifeVars, model, graph, nCompiles, compileOk, threadVars>>

FunctionsNext ==
  \/ CreateQuantizationValue
  \/ GetQuantizationRange
  \/ GetAlignedDimensions
  \/ GetPadding
  \/ GetData
  \/ AddOperationWithActivation
  \/ Relu

\* a Model constructed from one of the quantized models or from the float one
FunctionsInit == Init /\ model \in {MAddQ, MConv3Q, MAddF}

Functions == FunctionsInit /\ [][FunctionsNext]_vars

\* ------------------------------------------------------------- properties
\* ------------------ construction, move and destruction of hexagon::Model
\* what the operations on the further Model objects leave alone
programVars == <<model, mOperands, mNodeCount, mGraphId, mCompiled, graph, used,
                 nCompiles, compileOk, last, threadVars>>

\* Model::operator=(Model&& other) on the objects ms: the target takes other's
\* mGraphId whatever its own was, and other is left with the sentinel
moveAssign(ms, x, other) ==
  [ms EXCEPT ![x] = [state |-> "alive", mGraphId |-> ms[other].mGraphId],
             ![other].mGraphId = NoGraph]

\* Model::~Model: the ids it calls teardown with
destroy(m) == IF m.mGraphId # NoGraph THEN <<m.mGraphId>> ELSE <<>>

\* Model::Model(const NeuralnetworksModel&) in the storage x
Construct(x) ==
  /\ models[x].state = "none"
  /\ nextId - 2 < MaxSessions
  /\ models' = [models EXCEPT ![x] = [state |-> "alive", mGraphId |-> nextId]]
  /\ nextId' = nextId + 1
  /\ UNCHANGED <<teardowns, programVars>>

\* Model::Model(Model&& other) in the storage x: *this = std::move(other)
MoveConstruct(x, other) ==
  /\ models[x].state = "none"
  /\ models[other].state = "alive"
  /\ models' = moveAssign(models, x, other)
  /\ UNCHANGED <<teardowns, nextId, programVars>>

\* x = std::move(other) for two objects that exist
MoveAssign(x, other) ==
  /\ x # other
  /\ models[x].state = "alive"
  /\ models[other].state = "alive"
  /\ models' = moveAssign(models, x, other)
  /\ UNCHANGED <<teardowns, nextId, programVars>>

\* Model::resetModel on the object x
ResetModel(x) ==
  /\ models[x].state = "alive"
  /\ nextId - 2 < MaxSessions
  /\ Then(resetModel([Fresh(model) EXCEPT !.gid = models[x].mGraphId, !.nextId = nextId]),
          LAMBDA S :
       /\ models' = [models EXCEPT ![x].mGraphId = S.gid]
       /\ nextId' = S.nextId
       /\ teardowns' = teardowns \o
            Then(SelectSeq(S.calls, LAMBDA c : c.fn = "teardown"), LAMBDA td :
              [k \in 1..Len(td) |-> td[k].id]))
  /\ UNCHANGED programVars

\* Model::~Model on the object x
Destruct(x) ==
  /\ models[x].state = "alive"
  /\ models' = [models EXCEPT ![x].state = "gone"]
  /\ teardowns' = teardowns \o destroy(models[x])
  /\ UNCHANGED <<nextId, programVars>>

LifetimeNext ==
  \E x \in Objects :
    \/ Construct(x)
    \/ ResetModel(x)
    \/ Destruct(x)
    \/ \E other \in Objects : MoveConstruct(x, other) \/ MoveAssign(x, other)

LifetimeInit == model = MAddF /\ Constructed

Lifetime == LifetimeInit /\ [][LifetimeNext]_vars

Rejected(calls) ==
  \E k \in 1..Len(calls) :
     calls[k].fn \in {"append_node", "append_const_node"} /\ ~calls[k].ok

AllAccepted(calls) == \A k \in 1..Len(calls) : calls[k].ok

\* the models that compile on a fresh Model when the runtime accepts all
Compilable == {m \in SeqToSet(Models) : compile(Fresh(m), m).r.ok}

\* the messages of the lowering functions' input and output count assertions
ArityAssertions ==
  {"Need " \o n \o " for " \o ns \o "::" \o f :
     n \in {"1 input", "3 inputs", "10 inputs", "1 output"},
     ns \in {"float32", "quant8_asym"},
     f \in {"add", "mul", "average_pool_2d", "l2_pool_2d", "max_pool_2d", "conv_2d",
            "logistic", "relu", "tanh"}}

\* C1: whenever compile() returns failure the graph has been Reset: the
\* session it ran on was torn down, a fresh session was initialised and every
\* operand's tensor handle was cleared.
C1_FailedCompileResets ==
  (last.op = "compile" /\ ~last.ok) =>
     /\ \E k \in 1..Len(last.calls) :
          last.calls[k].fn = "teardown" /\ last.calls[k].id = last.session
     /\ \E k \in 1..Len(last.calls) :
          last.calls[k].fn = "init" /\ last.calls[k].id = mGraphId
     /\ mGraphId # last.session
     /\ \A o \in 1..Len(mOperands) : mOperands[o].hexagon_input = NoInput

\* C2: the accelerator's execute entry point is only ever invoked on a session
\* whose graph was fully built and successfully prepared.
C2_ExecuteOnlyPrepared ==
  \A k \in 1..Len(last.calls) :
     last.calls[k].fn = "execute_new" => (last.calls[k].id = mGraphId /\ graph = "prepared")

\* C3: an execution requested while the graph is not successfully compiled
\* runs a compile() first: the accelerator's prepare is called before its
\* execute entry point within that request.
C3_LazyCompileBeforeExecute ==
  (last.op = "execute" /\ last.before # "prepared") =>
     \A k \in 1..Len(last.calls) :
        last.calls[k].fn = "execute_new" =>
           \E j \in 1..(k - 1) : last.calls[j].fn = "prepare"

\* C4: once the latest compile() has failed, every execution reports failure:
\* the callback never receives NONE, whatever the accelerator's execute entry
\* point returns.
C4_ExecuteFailsAfterFailedCompile ==
  (last.op = "execute" /\ ~compileOk) => last.status # "NONE"

\* C5: after a compile() that returned failure, the next compile() of the same
\* Model succeeds when the accelerator accepts every call of that attempt (for
\* a model that compiles at all).
C5_CompileRecovers ==
  [][ ( /\ nCompiles >= 1 /\ ~compileOk
        /\ nCompiles' = nCompiles + 1
        /\ model \in Compilable
        /\ AllAccepted(last'.calls) )
      => compileOk' ]_vars

\* C6: every append_node/append_const_node call gets a node id that is not
\* zero and greater than every id used before; one id is consumed per call,
\* across resets and rejected nodes.
C6_NodeIdsFresh ==
  /\ \A i \in 1..Len(used) : used[i] # 0
  /\ \A i, j \in 1..Len(used) : i < j => used[i] < used[j]
  /\ Len(used) = mNodeCount

C6_Witness ==
  /\ last.op = "compile" /\ nCompiles >= 2
  /\ Rejected(last.calls)
  /\ Called(last.calls, "init")
  /\ last.session > 1
  /\ Len(used) > Len(Appends(last.calls))

\* C7: a tensor handle that is set is never assigned again within its graph
\* build: no assignment made by a handler hits an operand whose handle was
\* already non-default.
C7_HandlesAssignedOnce ==
  \A k \in 1..Len(last.writes) : last.writes[k].old = NoInput

\* C8: a compile() during which the accelerator rejected a node creation
\* returns failure.
C8_RejectedNodeFailsCompile ==
  (last.op = "compile" /\ Rejected(last.calls)) => ~last.ok

\* C9: when verifyOperations passes, addOperations never fails on a missing
\* prepare table entry or on a lowering function's arity assertion.
C9_VerifiedOperationsLower ==
  (last.op = "compile" /\ last.verified) =>
     \A k \in 1..Len(last.log) :
        last.log[k] # "Operation not found" /\ last.log[k] \notin ArityAssertions

InFlight == {w \in 1..Len(requests) : requests[w].at = "running"}

\* the tensordef Model::execute derives from argument k of loop `phase` of
\* request w alone
ExpectedDef(w, phase, k) ==
  Then(IndexesOf(phase)[k], LAMBDA operand :
  Then(IF Len(ArgsOf(requests[w], phase)[k]) > 0
       THEN ArgsOf(requests[w], phase)[k]
       ELSE model.operands[operand].dimensions, LAMBDA dims :
    [dimensions |-> getAlignedDimensions(dims, 4),
     data |-> BufferOf(w, BaseOf(phase) + k),
     dataLen |-> Product(dims) * getSize(model.operands[operand].type)]))

\* C11: an accepted execute() returns NONE at once, while its thread is still
\* to run; its callback is notified at most once, only by the worker thread
\* and only with NONE or GENERAL_FAILURE, and exactly once when the thread has
\* come back from the accelerator call.
C11_NotifiedOnceByWorker ==
  \A w \in 1..Len(requests) :
     /\ (requests[w].callback # "null" /\ requests[w].valid) <=> requests[w].ret = "NONE"
     /\ requests[w].ret = "NONE" =>
          /\ Len(notified[w]) = (IF requests[w].at = "done" THEN 1 ELSE 0)
          /\ \A n \in 1..Len(notified[w]) :
               /\ notified[w][n].by = "worker"
               /\ notified[w][n].status \in {"NONE", "GENERAL_FAILURE"}

C11_Witness ==
  \E w, v \in 1..Len(requests) :
     /\ requests[w].ret = "NONE" /\ requests[w].at = "done"
     /\ notified[w] = <<Notification("GENERAL_FAILURE", "worker")>>
     /\ requests[v].ret = "NONE" /\ requests[v].at = "update" /\ requests[v].k = 1
     /\ requests[v].phase = "in" /\ notified[v] = <<>>

\* C12: an execute() with an invalid request or a null callback returns
\* INVALID_ARGUMENT, starts no thread, binds no operand and calls the
\* accelerator never; the callback of an invalid request is notified exactly
\* once, with INVALID_ARGUMENT, by the caller's thread; a null callback is not
\* notified.
C12_InvalidRequestRejected ==
  /\ [](\A w \in 1..Len(requests) :
          (requests[w].callback = "null" \/ ~requests[w].valid) =>
             /\ requests[w].ret = "INVALID_ARGUMENT"
             /\ requests[w].at = "rejected"
             /\ requests[w].ncalls = 0
             /\ requests[w].inputs = <<>> /\ requests[w].outputs = <<>>
             /\ notified[w] = IF requests[w].callback = "null" THEN <<>>
                              ELSE <<Notification("INVALID_ARGUMENT", "caller")>>)
  /\ [][ (Len(requests') > Len(requests) /\ requests'[Len(requests')].at = "rejected")
          => (mOperands' = mOperands /\ mBuffers' = mBuffers /\ graph' = graph) ]_vars

C12_Witness ==
  \E w, v \in 1..Len(requests) :
     /\ requests[w].callback = "null" /\ notified[w] = <<>>
     /\ requests[v].callback # "null" /\ ~requests[v].valid
     /\ notified[v] = <<Notification("INVALID_ARGUMENT", "caller")>>

\* C13: Model::execute returns true exactly when execute_new returned 0, the
\* callback gets NONE exactly then and GENERAL_FAILURE otherwise, and a thread
\* calls execute_new once, whatever it returned.
C13_StatusFollowsAccelerator ==
  \A w \in 1..Len(requests) :
     /\ requests[w].ncalls <=
          (IF requests[w].at \in {"running", "done"} THEN 1 ELSE 0)
     /\ requests[w].at = "done" =>
          /\ requests[w].ncalls = 1
          /\ requests[w].ok = (requests[w].err = 0)
          /\ notified[w] = <<Notification(IF requests[w].err = 0 THEN "NONE"
                                           ELSE "GENERAL_FAILURE", "worker")>>

C13_Witness ==
  \E w, v \in 1..Len(requests) :
     /\ requests[w].at = "done" /\ requests[w].err = 0
     /\ requests[v].at = "done" /\ requests[v].err # 0

\* C14: while the graph is prepared, at most one thread is inside the
\* accelerator's execute entry point for it.
C14_OneExecuteInFlight == graph = "prepared" => Cardinality(InFlight) <= 1

\* C15: the tensor descriptors a thread hands to the accelerator for the
\* prepared graph (dimensions, data pointer, length) are the ones derived from
\* its own request.
C15_DescriptorsOfOwnRequest ==
  \A w \in 1..Len(requests) :
     (compileOk /\ requests[w].at \in {"running", "done"}) =>
        /\ requests[w].inputs =
             [k \in 1..Len(requests[w].request.inputs) |-> ExpectedDef(w, "in", k)]
        /\ requests[w].outputs =
             [k \in 1..Len(requests[w].request.outputs) |-> ExpectedDef(w, "out", k)]

\* C16: the session is never torn down while a thread is inside the
\* accelerator's execute entry point on it.
C16_NoTeardownDuringExecute ==
  [][ (graph = "prepared" /\ graph' = "torn down") => InFlight = {} ]_vars

\* C17: once the output operand of an operation carries a tensor handle (it
\* was wired by registerHexagonInputs), a handler that evaluates the operation
\* again fails in setShape: the operation is not reported as passing its
\* check and the operand keeps its dimensions.
C17_SetShapeFailsOnceWired ==
  [][ last'.op = "supportedOperations" =>
        \A i \in 1..Len(model.operations) :
           (/\ Len(model.operations[i].outputs) >= 1
            /\ mOperands[model.operations[i].outputs[1]].hexagon_input # NoInput) =>
              /\ ~last'.supported[i]
              /\ mOperands'[model.operations[i].outputs[1]].dimensions =
                   mOperands[model.operations[i].outputs[1]].dimensions ]_vars

\* the tensor handle of an operand when addOutputs is reached: the last one a
\* handler assigned to it, else the one it had when the handler started
HandleAfter(ops, writes, operand) ==
  Then({k \in 1..Len(writes) : writes[k].operand = operand}, LAMBDA ks :
    IF ks = {} THEN ops[operand].hexagon_input
    ELSE writes[CHOOSE k \in ks : \A j \in ks : j <= k].new)

\* the append_node calls of a handler that create an OP_OUTPUT node
OutputNodes(calls) ==
  {k \in 1..Len(calls) : calls[k].fn = "append_node" /\ calls[k].op = "OP_OUTPUT"}

C18_Unproduced ==
  /\ last.op = "compile" /\ ~last.ok
  /\ \E k \in 1..Len(last.log) : last.log[k] = "output operand has not been registered"
  /\ OutputNodes(last.calls) = {}

\* the append_node calls of a handler that create an OP_INPUT node
InputNodes(calls) ==
  {k \in 1..Len(calls) : calls[k].fn = "append_node" /\ calls[k].op = "OP_INPUT"}

\* C19: a compile() that gets past validation creates exactly one OP_INPUT
\* node (no other creates any), before every other node; the node has no
\* inputs and one output descriptor per model input, in declared order; when
\* the accelerator accepts it, input operand number k (from 0) is bound to
\* (that node, k), and when it rejects it no handle is bound at all.
C19_OneInputNode ==
  last.op = "compile" =>
    /\ Cardinality(InputNodes(last.calls)) <= 1
    /\ (last.verified /\ \A k \in 1..Len(last.log) :
            last.log[k] # "At least one operand with unknown dimension")
         => Cardinality(InputNodes(last.calls)) = 1
    /\ \A n \in InputNodes(last.calls) :
          /\ n = 1
          /\ last.calls[n].ins = <<>>
          /\ last.calls[n].outs =
               [k \in 1..Len(model.inputIndexes) |->
                  make_hexagon_nn_output(mOperands[model.inputIndexes[k]].dimensions,
                                         getSize(mOperands[model.inputIndexes[k]].type))]
          /\ IF last.calls[n].ok
             THEN /\ Len(last.writes) >= Len(model.inputIndexes)
                  /\ \A k \in 1..Len(model.inputIndexes) :
                        /\ last.writes[k].operand = model.inputIndexes[k]
                        /\ last.writes[k].new = <<last.calls[n].node, k - 1>>
             ELSE /\ last.writes = <<>>
                  /\ ~last.ok
                  /\ \A k \in 1..Len(model.inputIndexes) :
                        mOperands[model.inputIndexes[k]].hexagon_input = NoInput

C19_Witness ==
  /\ last.op = "compile"
  /\ Len(model.inputIndexes) >= 2
  /\ \E n \in InputNodes(last.calls) :
        /\ last.calls[n].ok
        /\ Len(last.calls[n].outs) = Len(model.inputIndexes)
        /\ mOperands[model.inputIndexes[2]].hexagon_input = <<last.calls[n].node, 1>>

\* a compile() whose OP_INPUT node the accelerator rejected
C19_RejectedInput ==
  /\ last.op = "compile" /\ ~last.ok
  /\ \E n \in InputNodes(last.calls) : ~last.calls[n].ok
  /\ last.writes = <<>>

\* the accelerator node that carries the operation itself in the lowering
\* function the prepare table holds for opTuple (the pairs the models use)
MainNode(opTuple) ==
  CASE opTuple = <<"ADD", "TENSOR_FLOAT32">> -> "OP_Add_f"
    [] opTuple = <<"MUL", "TENSOR_FLOAT32">> -> "OP_Mul_f"
    [] opTuple = <<"AVERAGE_POOL_2D", "TENSOR_FLOAT32">> -> "OP_AvgPool_f"
    [] opTuple = <<"L2_POOL_2D", "TENSOR_FLOAT32">> -> "OP_L2Pool_f"
    [] opTuple = <<"MAX_POOL_2D", "TENSOR_FLOAT32">> -> "OP_MaxPool_f"
    [] opTuple = <<"CONV_2D", "TENSOR_FLOAT32">> -> "OP_Conv2d_f"
    [] opTuple = <<"LOGISTIC", "TENSOR_FLOAT32">> -> "OP_Sigmoid_f"
    [] opTuple = <<"RELU", "TENSOR_FLOAT32">> -> "OP_Relu_f"
    [] opTuple = <<"TANH", "TENSOR_FLOAT32">> -> "OP_Tanh_f"
    [] opTuple = <<"ADD", "TENSOR_QUANT8_ASYMM">> -> "OP_QuantizedAdd_8p8to32"
    [] opTuple = <<"MUL", "TENSOR_QUANT8_ASYMM">> -> "OP_QuantizedMul_8x8to32"
    [] opTuple = <<"CONV_2D", "TENSOR_QUANT8_ASYMM">> -> "OP_QuantizedConv2d_8x8to32"
    [] OTHER -> ""

\* operation i's key in the prepare table
TupleOf(i) ==
  <<model.operations[i].type, model.operands[model.operations[i].inputs[1]].type>>

\* the calls of a handler that create the main node of an operation of the
\* model (no model below fuses an activation that is another operation's
\* main node)
MainNodes(calls) ==
  SelectSeq(calls, LAMBDA c :
     /\ c.fn = "append_node"
     /\ \E i \in 1..Len(model.operations) : c.op = MainNode(TupleOf(i)))

\* the messages with which addOperations gives up
Stops(msg) == msg \in {"Operation not found", "error adding operation"}

\* C20: in a compile(), the main nodes created are those of operations
\* 1, 2, ... in list order, each the node of the lowering function keyed by
\* (operation type, type of the first input); nothing is lowered after a
\* failed lowering or at or after an operation without a table entry; once
\* addOperations gives up nothing else is attempted and the compile fails.
C20_LoweredInOrder ==
  last.op = "compile" =>
    Then(MainNodes(last.calls), LAMBDA mains :
      /\ Len(mains) <= Len(model.operations)
      /\ \A k \in 1..Len(mains) :
            /\ TupleOf(k) \in OperationPrepareTable
            /\ mains[k].op = MainNode(TupleOf(k))
            /\ k < Len(mains) => mains[k].ok
      /\ \A k \in 1..Len(last.log) :
            Stops(last.log[k]) => (k = Len(last.log) /\ ~last.ok)
      /\ (/\ \E n \in InputNodes(last.calls) : last.calls[n].ok
          /\ Len(mains) < Len(model.operations))
           => (~last.ok /\ Len(last.log) > 0 /\ Stops(last.log[Len(last.log)]))
      /\ (Len(last.log) > 0 /\ last.log[Len(last.log)] = "Operation not found")
           => (/\ Len(mains) < Len(model.operations)
               /\ TupleOf(Len(mains) + 1) \notin OperationPrepareTable
               /\ \A k \in 1..Len(mains) : mains[k].ok)
      /\ last.ok => Len(mains) = Len(model.operations))

\* the first of two operations was lowered, the second's lowering failed
C20_Witness ==
  /\ last.op = "compile" /\ ~last.ok
  /\ Len(model.operations) >= 2
  /\ Len(MainNodes(last.calls)) = 2
  /\ MainNodes(last.calls)[1].ok /\ ~MainNodes(last.calls)[2].ok
  /\ last.log[Len(last.log)] = "error adding operation"

\* an operation that passed its check has no entry in the prepare table
C20_NotFound ==
  /\ last.op = "compile" /\ ~last.ok
  /\ Len(last.log) > 0 /\ last.log[Len(last.log)] = "Operation not found"
  /\ MainNodes(last.calls) = <<>>

\* two operations lowered in list order by a compile() that succeeded
C20_BothLowered ==
  /\ last.op = "compile" /\ last.ok
  /\ Len(MainNodes(last.calls)) = 2

\* C21: the constant made by getQuantizationMin holds (0 - Z) * S, the one
\* made by getQuantizationMax holds (255 - Z) * S, and the one made by
\* createQuantizationValue(operand, V) holds (V - Z) * S, with V - Z the
\* integer difference, negative when V < Z.
C21_QuantizationValues ==
  Then(IF last.op \in {"createQuantizationValue", "getQuantizationMin", "getQuantizationMax"}
       THEN model.operands[last.args[1]] ELSE model.operands[1], LAMBDA operand :
    /\ (last.op = "getQuantizationMin" /\ last.calls # <<>>) =>
          last.calls[1].data = <<"values", <<(0 - operand.zeroPoint) * operand.scale>> >>
    /\ (last.op = "getQuantizationMax" /\ last.calls # <<>>) =>
          last.calls[1].data = <<"values", <<(255 - operand.zeroPoint) * operand.scale>> >>
    /\ last.op = "createQuantizationValue" =>
          /\ Len(last.calls) = 1
          /\ last.calls[1].data[2][1].scale = operand.scale
          /\ last.args[2] - operand.zeroPoint >= 0
          /\ last.calls[1].data[2][1].unsigned = ToU32(last.args[2] - operand.zeroPoint))

\* C22: getAlignedDimensions(dims, N) gives, for dims of at most N axes,
\* exactly N axes: N - Len(dims) ones followed by dims; for dims of more than
\* N axes it gives the empty vector.
C22_AlignedDimensions ==
  last.op = "getAlignedDimensions" =>
    Then(last.args[1], LAMBDA dims : Then(last.args[2], LAMBDA N :
      IF Len(dims) <= N
      THEN /\ Len(last.result) = N
           /\ \A i \in 1..N :
                 last.result[i] = IF i <= N - Len(dims) THEN 1
                                  ELSE dims[i - (N - Len(dims))]
      ELSE last.result = <<>>))

C22_Witness ==
  /\ last.op = "getAlignedDimensions"
  /\ last.args = << <<2, 3, 3>>, 4 >>
  /\ last.result = <<1, 2, 3, 3>>

\* alignment to fewer axes than the vector has
C22_TooManyAxes ==
  /\ last.op = "getAlignedDimensions"
  /\ Len(last.args[1]) = 5 /\ last.args[2] = 4
  /\ last.result = <<>>

\* the declared paddings <<head, tail>> the SAME rule gives a 3-wide filter at
\* stride 1, for the input sizes 1..5
SamePaddings3 == {calculateExplicitPadding(size, 1, 3, kPaddingSame) : size \in 1..5}

\* C23: for a 3x3 filter at stride 1, getPadding gives NN_PAD_VALID for zero
\* padding on every side, NN_PAD_SAME for the paddings the SAME rule
\* computes, and NN_PAD_NA for every other combination.
C23_PaddingClassified ==
  (last.op = "getPadding" /\ last.args[1] = 3 /\ last.args[2] = 3) =>
     last.result =
       IF \A k \in 3..6 : last.args[k] = 0 THEN "NN_PAD_VALID"
       ELSE IF <<last.args[3], last.args[4]>> \in SamePaddings3
               /\ <<last.args[5], last.args[6]>> \in SamePaddings3 THEN "NN_PAD_SAME"
       ELSE "NN_PAD_NA"

\* the region of `length` bytes at `offset` lies inside a region of `size`
\* bytes, offset + length taken over the integers
Inside(offset, length, size) ==
  offset[1] = 0 /\ length[1] = 0 /\ offset[2] + length[2] <= size

\* C24: a CONSTANT_COPY operand gets a buffer exactly when offset + length,
\* taken over the integers, is within the inline data block, and the buffer
\* then starts at its offset; a CONSTANT_REFERENCE operand gets a buffer only
\* when its region is within its pool.
C24_ConstantsInsideTheirRegion ==
  last.op = "getData" =>
    Then(last.args[1], LAMBDA operand :
      /\ operand.lifetime = "CONSTANT_COPY" =>
            /\ last.result # Null <=>
                 Inside(operand.location.offset, operand.location.length, RegionSize)
            /\ last.result # Null => last.result = <<"block", operand.location.offset>>
      /\ operand.lifetime = "CONSTANT_REFERENCE" =>
            (last.result # Null =>
               Inside(operand.location.offset, operand.location.length, RegionSize)))

\* some operand of the Model has a zero dimension
UnknownDimension ==
  \E o \in 1..Len(mOperands) : \E d \in 1..Len(mOperands[o].dimensions) :
     mOperands[o].dimensions[d] = 0

\* C25: a compile() on a Model that has an operand with a zero dimension
\* once the operation checks have set the shapes returns false, and a
\* compile() that fails in verifyOperations or verifyOperands has made no
\* accelerator call at all.
C25_UnknownDimensionRejected ==
  last.op = "compile" =>
    /\ UnknownDimension => (~last.ok /\ Appends(last.calls) = <<>>)
    /\ (~last.verified \/ \E k \in 1..Len(last.log) :
            last.log[k] = "At least one operand with unknown dimension")
         => (~last.ok /\ last.calls = <<>>)

\* a compile() that fails in verifyOperations
C25_CheckFailed ==
  /\ last.op = "compile" /\ ~last.verified /\ ~last.ok /\ last.calls = <<>>

C25_Witness ==
  /\ last.op = "compile" /\ last.verified /\ UnknownDimension
  /\ ~last.ok /\ last.calls = <<>>
  /\ last.log = <<"At least one operand with unknown dimension">>

\* C26: mCompiled is false as long as no compile() has succeeded and after a
\* compile() that reset the graph, and true once compile() has returned
\* success.
C26_CompiledFlag ==
  /\ (nCompiles = 0 \/ ~compileOk) => ~mCompiled
  /\ (last.op = "compile" /\ Called(last.calls, "init")) => ~mCompiled
  /\ (last.op = "compile" /\ last.ok) => mCompiled

\* the append_node calls among the calls
NodesOf(calls) == SelectSeq(calls, LAMBDA c : c.fn = "append_node")

\* the values of the constant node a handle names
ValuesOf(calls, handle) ==
  Then(SelectSeq(calls, LAMBDA c : c.fn = "append_const_node" /\ c.node = handle[1]),
       LAMBDA c : IF Len(c) = 1 /\ handle[2] = 0 THEN c[1].data ELSE <<>>)

\* C27: the activation node appended by a ...WithActivation lowering has one
\* of the four activation opcodes of its variant (the no-op for a selector
\* outside the enumeration); its inputs are output 0 of the base node (then
\* outputs 1 and 2 when quantized), followed by nothing for the no-op and
\* relu, by one constant 6.0 for the bounded relu and by the two constants
\* -1.0 and 1.0 for the clamp.
C27_ActivationNode ==
  (last.op \in {"addFloatOperationWithActivation", "addQuant8OperationWithActivation"}
   /\ Len(NodesOf(last.calls)) = 2) =>
    Then(NodesOf(last.calls), LAMBDA nodes :
    Then(last.op = "addQuant8OperationWithActivation", LAMBDA quantized :
    Then(IF quantized
         THEN << <<nodes[1].node, 0>>, <<nodes[1].node, 1>>, <<nodes[1].node, 2>> >>
         ELSE << <<nodes[1].node, 0>> >>, LAMBDA previous :
    Then(nodes[2].ins, LAMBDA ins :
      /\ nodes[2].op \in (IF quantized
                          THEN {"OP_Nop", "OP_QuantizedRelu_8", "OP_QuantizedReluX_8",
                                "OP_QuantizedClamp_8"}
                          ELSE {"OP_Nop", "OP_Relu_f", "OP_ReluX_f", "OP_Clamp_f"})
      /\ last.args[1] \notin {ActNONE, ActRELU, ActRELU1, ActRELU6} => nodes[2].op = "OP_Nop"
      /\ Len(ins) >= Len(previous)
      /\ SubSeq(ins, 1, Len(previous)) = previous
      /\ [k \in 1..(Len(ins) - Len(previous)) |->
            ValuesOf(last.calls, ins[Len(previous) + k])]
         = CASE nodes[2].op \in {"OP_ReluX_f", "OP_QuantizedReluX_8"} ->
                  << <<"values", <<6>> >> >>
             [] nodes[2].op \in {"OP_Clamp_f", "OP_QuantizedClamp_8"} ->
                  << <<"values", <<-1>> >>, <<"values", <<1>> >> >>
             [] OTHER -> <<>>))))

\* a quantized bounded relu and a float clamp, each with its constants
C27_Witness ==
  /\ last.op = "addQuant8OperationWithActivation" /\ last.result
  /\ Len(NodesOf(last.calls)) = 2
  /\ NodesOf(last.calls)[2].op = "OP_QuantizedReluX_8"
  /\ Len(NodesOf(last.calls)[2].ins) = 4

C27_FloatClamp ==
  /\ last.op = "addFloatOperationWithActivation" /\ last.result
  /\ Len(NodesOf(last.calls)) = 2
  /\ NodesOf(last.calls)[2].op = "OP_Clamp_f"
  /\ Len(NodesOf(last.calls)[2].ins) = 3

\* a selector outside the enumeration lowered to the no-op
C27_UnknownSelector ==
  /\ last.op = "addFloatOperationWithActivation" /\ last.result
  /\ last.args[1] = ActRELU6 + 1
  /\ NodesOf(last.calls)[2].op = "OP_Nop"

\* the opcode of the last node appended and the values of the constants that
\* follow its first input (its first three when quantized)
Bounded(calls, quantized) ==
  Then(NodesOf(calls), LAMBDA nodes :
  Then(nodes[Len(nodes)], LAMBDA n :
  Then(IF quantized THEN 3 ELSE 1, LAMBDA data :
    <<n.op, [k \in 1..(Len(n.ins) - data) |-> ValuesOf(calls, n.ins[data + k])]>>)))

\* C28: a lowering with the fused selector RELU1 or RELU6 ends in a node with
\* the opcode and the bound constants that the standalone RELU1 or RELU6
\* lowering, started from the same state, ends in.
C28_FusedAsStandalone ==
  [][(/\ last'.op \in {"addFloatOperationWithActivation",
                       "addQuant8OperationWithActivation"}
      /\ last'.result
      /\ last'.args[1] \in {ActRELU1, ActRELU6})
     => Then(last'.op = "addQuant8OperationWithActivation", LAMBDA quantized :
        Then(standalone(Running(0, TRUE), last'.args[1], quantized,
                        <<model.inputIndexes[1]>>, <<last'.args[3]>>), LAMBDA alone :
          /\ alone.r
          /\ Bounded(last'.calls, quantized) = Bounded(alone.s.calls, quantized)))]_vars

\* a compile() of the float32 ADD model that built and prepared its graph
AddLowered == model = MAddF /\ last.op = "compile" /\ last.ok

\* the descriptor of a float32 output with the broadcast shape of two
\* [1,2,2,1] tensors
BroadcastOutput == make_hexagon_nn_output(<<1, 2, 2, 1>>, getSize("TENSOR_FLOAT32"))

\* C29 as claimed: the float32 ADD of two [1,2,2,1] tensors with no activation
\* lowers to one OP_Add_f node with the broadcast output shape, and no node
\* is appended for the no-op activation: the output node follows the add
\* node.
C29_NoActivationNode ==
  AddLowered =>
    Then(NodesOf(last.calls), LAMBDA nodes :
      /\ [k \in 1..Len(nodes) |-> nodes[k].op] = <<"OP_INPUT", "OP_Add_f", "OP_OUTPUT">>
      /\ nodes[2].outs = <<BroadcastOutput>>)

\* C29 as amended: the float32 ADD of two [1,2,2,1] tensors with no activation
\* lowers to one OP_Add_f node with the broadcast output shape, followed by
\* one OP_Nop node that takes output 0 of the add node and no constant; the
\* output node takes output 0 of the OP_Nop node.
C29_AddThenNop ==
  AddLowered =>
    Then(NodesOf(last.calls), LAMBDA nodes :
      /\ [k \in 1..Len(nodes) |-> nodes[k].op]
           = <<"OP_INPUT", "OP_Add_f", "OP_Nop", "OP_OUTPUT">>
      /\ nodes[2].ins = << <<nodes[1].node, 0>>, <<nodes[1].node, 1>> >>
      /\ nodes[2].outs = <<BroadcastOutput>>
      /\ nodes[3].ins = << <<nodes[2].node, 0>> >>
      /\ nodes[3].outs = <<BroadcastOutput>>
      /\ nodes[4].ins = << <<nodes[3].node, 0>> >>
      /\ \A k \in 1..Len(last.calls) : last.calls[k].fn # "append_const_node")

C29_Witness ==
  /\ AddLowered
  /\ Len(NodesOf(last.calls)) = 4
  /\ NodesOf(last.calls)[3].op = "OP_Nop"

\* a compile() of the quantized 3x3 SAME CONV_2D model that built and
\* prepared its graph
ConvLowered == model = MConv3Q /\ last.op = "compile" /\ last.ok

\* the nodes appended between the input node and the output node
Chain(calls) ==
  SelectSeq(NodesOf(calls), LAMBDA c : c.op \notin {"OP_INPUT", "OP_OUTPUT"})

\* outputs 0, 1 and 2 of a node
Slots(n) == << <<n.node, 0>>, <<n.node, 1>>, <<n.node, 2>> >>

\* C30: the quantized CONV_2D (SAME, 3x3 filter, stride 1, input
\* [1,5,5,1]) gets the output shape [1,5,5,1] and lowers to a chain of five
\* nodes, each of which after the first takes outputs 0, 1 and 2 of the node
\* before it.
C30_FiveNodeChain ==
  ConvLowered =>
    Then(Chain(last.calls), LAMBDA chain :
      /\ mOperands[11].dimensions = <<1, 5, 5, 1>>
      /\ Len(chain) = 5
      /\ \A k \in 2..Len(chain) :
           /\ Len(chain[k].ins) >= 3
           /\ SubSeq(chain[k].ins, 1, 3) = Slots(chain[k - 1]))

\* operation i of the model is a convolution whose filter is not a constant
VariableFilter(i) ==
  /\ model.operations[i].type \in {"CONV_2D", "DEPTHWISE_CONV_2D"}
  /\ model.operands[model.operations[i].inputs[2]].lifetime
       \notin {"CONSTANT_COPY", "CONSTANT_REFERENCE"}

\* C31: supportedOperations() reports a CONV_2D or DEPTHWISE_CONV_2D whose
\* filter is not a constant as unsupported, and a compile() of a model with
\* such an operation fails without appending a node.
C31_VariableFilterUnsupported ==
  /\ last.op = "supportedOperations" =>
       \A i \in 1..Len(model.operations) : VariableFilter(i) => ~last.supported[i]
  /\ last.op = "compile" =>
       ((\E i \in 1..Len(model.operations) : VariableFilter(i))
          => (~last.ok /\ Appends(last.calls) = <<>>))

\* the constants holding the quantization range of an operand of the model
RangeOf(operand) ==
  << <<"values", <<(0 - model.operands[operand].zeroPoint) * model.operands[operand].scale>> >>,
     <<"values", <<(255 - model.operands[operand].zeroPoint) * model.operands[operand].scale>> >> >>

\* C39: the node a quantized CONV_2D or DEPTHWISE_CONV_2D is lowered to takes
\* as its third and fourth input the quantization range of the data operand
\* and as its fifth and sixth input the quantization range of the filter
\* operand.
C39_FilterRange ==
  (last.op = "compile" /\ Len(model.operations) = 1) =>
    \A k \in 1..Len(last.calls) :
      last.calls[k].op \in {"OP_QuantizedConv2d_8x8to32",
                            "OP_QuantizedDepthwiseConv2d_8x8to32"} =>
        Then(last.calls[k].ins, LAMBDA ins :
          /\ << ValuesOf(last.calls, ins[3]), ValuesOf(last.calls, ins[4]) >>
               = RangeOf(model.operations[1].inputs[1])
          /\ << ValuesOf(last.calls, ins[5]), ValuesOf(last.calls, ins[6]) >>
               = RangeOf(model.operations[1].inputs[2]))

\* the operands that take part in the construction of the graph as a model
\* input or as the output of an operation
Constructing ==
  SeqToSet(model.inputIndexes)
    \cup UNION {SeqToSet(model.operations[i].outputs) : i \in 1..Len(model.operations)}

\* C32: when an operand of rank greater than 4 takes part in the construction
\* of the graph, compile() fails, and no node is appended whose output
\* descriptor was derived from such an operand (a descriptor of rank 0).
C32_UnalignedRankFails ==
  (/\ last.op = "compile"
   /\ \E o \in Constructing : Len(model.operands[o].dimensions) > 4) =>
     /\ ~last.ok
     /\ \A k \in 1..Len(last.calls) :
          last.calls[k].fn = "append_node" =>
            \A o \in 1..Len(last.calls[k].outs) : last.calls[k].outs[o].rank # 0

\* the node a FULLY_CONNECTED is lowered to
MatMul(c) == c.fn = "append_node" /\ c.op \in {"OP_MatMul_f", "OP_QuantizedMatMul_8x8to32"}

\* C33: the node a FULLY_CONNECTED is lowered to, float or quantized, takes as
\* its second input a constant node of shape [1,1,C,W] that holds the [W,C]
\* weight operand transposed, never the weight operand as it is.
C33_WeightsTransposed ==
  (last.op = "compile" /\ Len(model.operations) = 1) =>
    \A k \in 1..Len(last.calls) :
      MatMul(last.calls[k]) =>
        Then(model.operations[1].inputs[2], LAMBDA weights :
        Then(model.operands[weights].dimensions, LAMBDA dims :
          \E j \in 1..(k - 1) :
            /\ last.calls[j].fn = "append_const_node"
            /\ <<last.calls[j].node, 0>> = last.calls[k].ins[2]
            /\ last.calls[j].shape = <<1, 1, dims[2], dims[1]>>
            /\ last.calls[j].data = <<"transposed", weights, dims[1], dims[2]>>))

\* operation i reads a temporary operand that no operation before it writes
ReadsUnproduced(i) ==
  \E o \in SeqToSet(model.operations[i].inputs) :
    /\ model.operands[o].lifetime = "TEMPORARY_VARIABLE"
    /\ \A j \in 1..(i - 1) : o \notin SeqToSet(model.operations[j].outputs)

\* C34: a constant node made of an operand's buffer is made only of operands
\* whose lifetime is constant, and a compile() of a model with an operation
\* that reads a temporary nothing has produced fails.
C34_OnlyConstantsRealised ==
  last.op = "compile" =>
    /\ \A k \in 1..Len(last.calls) :
         (/\ last.calls[k].fn = "append_const_node"
          /\ last.calls[k].data # <<>>
          /\ last.calls[k].data[1] = "operand") =>
           model.operands[last.calls[k].data[2]].lifetime
             \in {"CONSTANT_COPY", "CONSTANT_REFERENCE"}
    /\ (\E i \in 1..Len(model.operations) : ReadsUnproduced(i)) => ~last.ok

\* C35: after a compile() that ran resetModel every operand's handles are
\* unset: the tensor handle, the output descriptor and the cached
\* quantization min and max handles.
C35_ResetClearsHandles ==
  (last.op = "compile" /\ Called(last.calls, "init")) =>
    \A o \in 1..Len(mOperands) :
      /\ mOperands[o].hexagon_input = NoInput
      /\ mOperands[o].hexagon_output = NoOutput
      /\ mOperands[o].hexagon_input_min = NoInput
      /\ mOperands[o].hexagon_input_max = NoInput

\* the number of outputs the node of an append call declared: a constant node
\* has the one output that holds its tensor
Declared(c) == IF c.fn = "append_const_node" THEN 1 ELSE Len(c.outs)

\* input reference ref of call k names a node appended successfully earlier in
\* the same handler to the same session, and one of its outputs
Resolves(calls, k, ref) ==
  \E j \in 1..(k - 1) :
    /\ calls[j].fn \in {"append_node", "append_const_node"}
    /\ calls[j].ok
    /\ calls[j].id = calls[k].id
    /\ calls[j].node = ref[1]
    /\ ref[2] < Declared(calls[j])

\* C36: in a compile() that starts on a session nothing was appended to, every
\* input reference (node, slot) passed to append_node names a node appended
\* successfully before it to that session and a slot below the number of
\* outputs that node declared.
C36_InputsResolve ==
  (last.op = "compile" /\ last.before = "empty") =>
    \A k \in 1..Len(last.calls) :
      last.calls[k].fn = "append_node" =>
        \A i \in 1..Len(last.calls[k].ins) :
          Resolves(last.calls, k, last.calls[k].ins[i])

\* the request that states no dimensions for any argument
Plain ==
  [inputs |-> [k \in 1..Len(model.inputIndexes) |-> <<>>],
   outputs |-> [k \in 1..Len(model.outputIndexes) |-> <<>>]]

\* the dimensions the graph is built with: those the checks leave in the
\* operands of a newly constructed Model
Built(o) == verifyOperations(Fresh(model), model).s.ops[o].dimensions

\* C37: an execute() of the request without override dimensions hands the
\* accelerator the dimensions the graph was built with, whatever requests were
\* executed before it.
C37_OverrideNotCarried ==
  [][\A err \in {0, -1} :
       Then(asyncExecute(Running(0, TRUE), model, Plain, err), LAMBDA e :
         (/\ nCompiles >= 1
          /\ compileOk
          /\ validateRequest(Plain, model)
          /\ last' = Outcome("execute", e.s, e.r = "NONE", FALSE, <<>>, e.r)) =>
            \A c \in SeqToSet(last'.calls) :
              c.fn = "execute_new" =>
                /\ \A k \in 1..Len(c.ins) :
                     c.ins[k] = getAlignedDimensions(Built(model.inputIndexes[k]), 4)
                /\ \A k \in 1..Len(c.outs) :
                     c.outs[k] = getAlignedDimensions(Built(model.outputIndexes[k]), 4))]_vars

\* C40: no append_node or append_const_node call is made on a session after
\* prepare was invoked on it, neither later in the same compile() nor in a
\* compile() called again on the same Model.
C40_NoAppendAfterPrepare ==
  last.op = "compile" =>
    \A k \in 1..Len(last.calls) :
      last.calls[k].fn \in {"append_node", "append_const_node"} =>
        /\ \A j \in 1..(k - 1) :
             ~(last.calls[j].fn = "prepare" /\ last.calls[j].id = last.calls[k].id)
        /\ (last.before \in {"built", "prepared"} => last.calls[k].id # last.session)

\* the session ids the further Model objects obtained from init
Obtained == 2..(nextId - 1)

\* C38: teardown is never called with the sentinel handle nor twice with the
\* same handle, and every session obtained from init that has not been torn
\* down is the mGraphId of a Model object that still exists.
C38_TornDownOnce ==
  /\ \A k \in 1..Len(teardowns) : teardowns[k] # NoGraph
  /\ \A j, k \in 1..Len(teardowns) : j # k => teardowns[j] # teardowns[k]
  /\ \A id \in Obtained :
       (\A k \in 1..Len(teardowns) : teardowns[k] # id) =>
         \E x \in Objects : models[x].state = "alive" /\ models[x].mGraphId = id

============================================================================
